---- MODULE Spec2Model ----
(***************************************************************************)
(* Tiered account storage: a write-once file of account blocks, an index   *)
(* block, an owners block and a footer, written by TieredStorageWriter and *)
(* read back through HotStorageReader.  Files are modelled byte for byte.  *)
(***************************************************************************)
EXTENDS Integers, Sequences, FiniteSets, TLC

\* ------------------------------------------------------------------ bounds
\* longest batch handed to write_accounts
MaxBatch == 2
\* longest batch used when the write is interrupted or the file is damaged
MaxFaultBatch == 1
\* accounts in a batch of one of two calls in flight at once
MaxConcBatch == 1
\* the longest account data, and the accounts in a batch, where the data
\* lengths run over every residue of 8
MaxDataLen == 8
MaxAlignBatch == 2
\* the most bytes a file holds ahead of a footer written on its own
MaxFooterPrefix == 8

\* --------------------------------------------------------------- constants
ALIGN_BOUNDARY_OFFSET == 8
FOOTER_FORMAT_VERSION == 1
FOOTER_TAIL_SIZE == 24
HASH_SIZE == 32
PUBKEY_SIZE == 32
HOT_ACCOUNT_META_SIZE == 16
MAX_HOT_PADDING == 7
MAX_HOT_OWNER_INDEX == 536870911
FOOTER_STRUCT_SIZE == 184
FOOTER_SIZE == FOOTER_STRUCT_SIZE + 8
PADDING_BYTE == 8
U64_MAX == -1
FILE_MAGIC_NUMBER == <<65, 110, 122, 97, 84, 101, 99, 104>>
AccountMetaFormat_Hot == 0
AccountMetaFormat_Cold == 1
\* a discriminant the enum of this build does not define
AccountMetaFormat_Later == 2
AccountMetaFormats == {AccountMetaFormat_Hot, AccountMetaFormat_Cold}

\* ------------------------------------------------------------------- bytes
Byte == 0..255

Zeros(n) == [i \in 1..n |-> 0]

Pow256(k) == CASE k = 0 -> 1 [] k = 1 -> 256 [] k = 2 -> 65536 [] OTHER -> 16777216

\* to_le_bytes of a value below 2^31, n bytes wide
LE(v, n) == [i \in 1..n |-> IF i <= 4 THEN (v \div Pow256(i - 1)) % 256 ELSE 0]

\* to_le_bytes of a u64; u64::MAX is kept as U64_MAX
U64(v) == IF v = U64_MAX THEN [i \in 1..8 |-> 255] ELSE LE(v, 8)

\* from_le_bytes; a value of 2^31 or more is reported as -1 (never a valid
\* offset or count of the files modelled here)
FromLE(b) ==
    IF \E i \in 1..Len(b) : (i > 4 /\ b[i] # 0) \/ (i = 4 /\ b[i] >= 128)
    THEN 0 - 1
    ELSE LET d(i) == IF i <= Len(b) THEN b[i] * Pow256(i - 1) ELSE 0
         IN  d(1) + d(2) + d(3) + d(4)

\* the bytes [off, off + n) of a byte string (0-based offset)
Slice(b, off, n) == SubSeq(b, off + 1, off + n)

Pubkey(id) == [i \in 1..PUBKEY_SIZE |-> IF i = 1 THEN id ELSE 0]

HashValue(id) == [i \in 1..HASH_SIZE |-> IF i = 1 THEN id ELSE 0]

\* ------------------------------------------------------------------- hash
\* blake3 stands behind a position-weighted checksum modulo a prime: two
\* byte strings that differ in one byte, or in length, hash differently.
HashPrime == 65521
FOOTER_MAGIC_NUMBER == 1344940725
\* size_of::<TieredStorageFooter>() of runtime/footer.rs, and its FOOTER_SIZE
RUNTIME_FOOTER_STRUCT_SIZE == 192
RUNTIME_FOOTER_SIZE == RUNTIME_FOOTER_STRUCT_SIZE + 8

RECURSIVE WeightedSum(_, _, _)
WeightedSum(b, lo, hi) ==
    IF lo > hi THEN 0
    ELSE IF lo = hi THEN (lo * (b[lo] + 1)) % HashPrime
    ELSE LET mid == (lo + hi) \div 2
         IN  (WeightedSum(b, lo, mid) + WeightedSum(b, mid + 1, hi)) % HashPrime

\* Hasher::finalize over everything fed to Hasher::update
Blake3(b) == LE(WeightedSum(b, 1, Len(b)), HASH_SIZE)

\* ---------------------------------------------------------------- inputs
\* An input account as the caller holds it.
Account(lamports, owner, executable, rent_epoch, data, address, hash, write_version) ==
    [lamports |-> lamports, owner |-> owner, executable |-> executable,
     rent_epoch |-> rent_epoch, data |-> data, address |-> address,
     hash |-> hash, write_version |-> write_version]

AccountPool ==
    { Account(5, 1, FALSE, 7, <<1, 2, 3>>, 1, 1, 3),
      Account(9, 2, TRUE, U64_MAX, <<>>, 2, 0, U64_MAX),
      Account(0, 1, FALSE, U64_MAX, <<4>>, 3, 2, U64_MAX),
      Account(2, 1, FALSE, 6, <<8, 8, 8, 8, 8, 8, 8, 8>>, 1, 0, 4) }

RECURSIVE SeqsUpTo(_, _)
SeqsUpTo(S, n) ==
    IF n = 0 THEN {<<>>}
    ELSE LET shorter == SeqsUpTo(S, n - 1)
         IN  shorter \cup {Append(s, x) : s \in shorter, x \in S}

Batches == SeqsUpTo(AccountPool, MaxBatch)

\* the caller's batch: accounts with their hashes and write versions.
\* get(i): an account with zero lamports is handed over as None (<<>>).
StorableAccounts_get(batch, i) ==
    LET a == batch[i + 1]
    IN  [account |-> IF a.lamports = 0 THEN <<>> ELSE <<a>>,
         address |-> a.address, hash |-> a.hash, write_version |-> a.write_version]

\* ----------------------------------------------------------------- metas
\* Option<T> is a sequence of length 0 (None) or 1 (Some).
AccountMetaOptionalFields_new_from_fields(rent_epoch, account_hash, write_version) ==
    [rent_epoch |-> IF rent_epoch = U64_MAX THEN <<>> ELSE <<U64(rent_epoch)>>,
     account_hash |-> IF account_hash = 0 THEN <<>> ELSE <<HashValue(account_hash)>>,
     write_version |-> IF write_version = U64_MAX THEN <<>> ELSE <<U64(write_version)>>]

\* a faulty AccountMetaFlags::new_from that sets has_rent_epoch whatever the
\* fields hold (C21 fails of it)
AccountMetaFlags_new_from_always_rent_epoch(optional_fields) ==
    [has_rent_epoch |-> TRUE,
     has_account_hash |-> optional_fields.account_hash # <<>>,
     has_write_version |-> optional_fields.write_version # <<>>,
     executable |-> FALSE]

AccountMetaFlags_new_from(optional_fields) ==
    [has_rent_epoch |-> optional_fields.rent_epoch # <<>>,
     has_account_hash |-> optional_fields.account_hash # <<>>,
     has_write_version |-> optional_fields.write_version # <<>>,
     executable |-> FALSE]

Bit(b, k) == IF b THEN k ELSE 0

\* AccountMetaFlags as its u32: bit 0 has_rent_epoch, bit 1 has_account_hash,
\* bit 2 has_write_version, bit 3 executable, the rest reserved
AccountMetaFlags_bytes(flags) ==
    LE(Bit(flags.has_rent_epoch, 1) + Bit(flags.has_account_hash, 2)
       + Bit(flags.has_write_version, 4) + Bit(flags.executable, 8), 4)

AccountMetaFlags_from_bytes(b) ==
    [has_rent_epoch |-> b[1] % 2 = 1,
     has_account_hash |-> (b[1] \div 2) % 2 = 1,
     has_write_version |-> (b[1] \div 4) % 2 = 1,
     executable |-> (b[1] \div 8) % 2 = 1]

\* bytes the optional fields take, from the fields or from the flags
AccountMetaOptionalFields_size(optional_fields) ==
    Bit(optional_fields.rent_epoch # <<>>, 8)
    + Bit(optional_fields.account_hash # <<>>, HASH_SIZE)
    + Bit(optional_fields.write_version # <<>>, 8)

AccountMetaOptionalFields_size_from_flags(flags) ==
    Bit(flags.has_rent_epoch, 8) + Bit(flags.has_account_hash, HASH_SIZE)
    + Bit(flags.has_write_version, 8)

\* ByteBlockWriter::write_optional_fields: rent_epoch, account_hash, write_version
write_optional_fields(optional_fields) ==
    (IF optional_fields.rent_epoch = <<>> THEN <<>> ELSE optional_fields.rent_epoch[1])
    \o (IF optional_fields.account_hash = <<>> THEN <<>> ELSE optional_fields.account_hash[1])
    \o (IF optional_fields.write_version = <<>> THEN <<>> ELSE optional_fields.write_version[1])

\* HotMetaPackedFields: a u32 held as its four little-endian bytes. The
\* bitfield gives its first member (padding, 3 bits) the lowest bits and its
\* second (owner_index, 29 bits) the bits above them.
HotMetaPackedFields_default == <<0, 0, 0, 0>>

HotMetaPackedFields_padding(packed_fields) == packed_fields[1] % 8

HotMetaPackedFields_owner_index(packed_fields) ==
    (packed_fields[1] \div 8)
    + 32 * (packed_fields[2] + 256 * packed_fields[3] + 65536 * packed_fields[4])

\* a faulty set_padding that puts the padding into the three highest bits
\* of the word (C23 fails of it)
HotMetaPackedFields_set_padding_high_bits(packed_fields, padding) ==
    [packed_fields EXCEPT ![4] = (@ % 32) + 32 * padding]

HotMetaPackedFields_set_padding(packed_fields, padding) ==
    [packed_fields EXCEPT ![1] = (@ \div 8) * 8 + padding]

HotMetaPackedFields_set_owner_index(packed_fields, owner_index) ==
    <<(packed_fields[1] % 8) + 8 * (owner_index % 32),
      (owner_index \div 32) % 256,
      (owner_index \div 8192) % 256,
      (owner_index \div 2097152) % 256>>

\* HotAccountMeta as the struct holds it: lamports, the packed word, flags
NoFlags ==
    [has_rent_epoch |-> FALSE, has_account_hash |-> FALSE,
     has_write_version |-> FALSE, executable |-> FALSE]

HotAccountMeta_new ==
    [lamports |-> 0, packed_fields |-> HotMetaPackedFields_default, flags |-> NoFlags]

Panicked == [kind |-> "Panic"]

with_lamports(meta, lamports) == [meta EXCEPT !.lamports = lamports]

\* a faulty with_account_data_padding that checks nothing and lets the
\* setter keep the three low bits of what it is given (C28 fails of it)
with_account_data_padding_unchecked(meta, padding) ==
    [meta EXCEPT !.packed_fields = HotMetaPackedFields_set_padding(@, padding % 8)]

with_account_data_padding(meta, padding) ==
    IF padding > MAX_HOT_PADDING THEN Panicked
    ELSE [meta EXCEPT !.packed_fields = HotMetaPackedFields_set_padding(@, padding)]

with_owner_index(meta, owner_index) ==
    IF owner_index > MAX_HOT_OWNER_INDEX THEN Panicked
    ELSE [meta EXCEPT !.packed_fields = HotMetaPackedFields_set_owner_index(@, owner_index)]

with_flags(meta, flags) == [meta EXCEPT !.flags = flags]

HotAccountMeta_account_data_padding(meta) == HotMetaPackedFields_padding(meta.packed_fields)

HotAccountMeta_owner_index(meta) == HotMetaPackedFields_owner_index(meta.packed_fields)

\* write_type of a HotAccountMeta: its 16 bytes
HotAccountMeta_write_type(meta) ==
    U64(meta.lamports) \o meta.packed_fields \o AccountMetaFlags_bytes(meta.flags)

\* the entry the writer builds (new, with_lamports, with_owner_index,
\* with_account_data_padding, with_flags) as its 16 bytes
HotAccountMeta_bytes(meta) ==
    HotAccountMeta_write_type(
        with_flags(
            with_account_data_padding(
                with_owner_index(with_lamports(HotAccountMeta_new, meta.lamports),
                                 meta.owner_index),
                meta.padding),
            meta.flags))

HotAccountMeta_from_bytes(b) ==
    [lamports |-> Slice(b, 0, 8),
     padding |-> HotMetaPackedFields_padding(Slice(b, 8, 4)),
     owner_index |-> HotMetaPackedFields_owner_index(Slice(b, 8, 4)),
     flags |-> AccountMetaFlags_from_bytes(Slice(b, 12, 4))]

\* ---------------------------------------------------------- writable file
\* TieredWritableFile: the bytes written so far and what the hasher was fed
TieredWritableFile_new == [bytes |-> <<>>, hasher |-> <<>>]

\* a faulty write_bytes that leaves the hasher out (C5 fails of it)
write_bytes_unhashed(storage, bytes) ==
    [bytes |-> storage.bytes \o bytes, hasher |-> storage.hasher]

write_bytes(storage, bytes) ==
    [bytes |-> storage.bytes \o bytes, hasher |-> storage.hasher \o bytes]

TieredWritableFile_hash(storage) == Blake3(storage.hasher)

\* ---------------------------------------------------------------- owners
\* AccountOwnersTable::try_insert: the index of the owner, added if new
RECURSIVE PositionIn(_, _, _)
PositionIn(s, x, i) ==
    IF i > Len(s) THEN 0 - 1
    ELSE IF s[i] = x THEN i - 1
    ELSE PositionIn(s, x, i + 1)

try_insert(owners_table, owner) ==
    LET at == PositionIn(owners_table, owner, 1)
    IN  IF at >= 0 THEN [table |-> owners_table, index |-> at]
        ELSE [table |-> Append(owners_table, owner), index |-> Len(owners_table)]

\* AccountOwnersTable with both its members: owners_vec, and owners_map as
\* a function from the addresses inserted to their indexes
AccountOwnersTable_new == [owners_vec |-> <<>>, owners_map |-> <<>>]

\* a faulty try_insert that pushes the address without looking it up
\* (C24 fails of it)
AccountOwnersTable_try_insert_always_push(table, address) ==
    LET index == Len(table.owners_vec)
    IN  [table |-> [owners_vec |-> Append(table.owners_vec, address),
                    owners_map |-> [a \in DOMAIN table.owners_map \cup {address} |->
                                      IF a = address THEN index ELSE table.owners_map[a]]],
         index |-> index]

AccountOwnersTable_try_insert(table, address) ==
    IF address \in DOMAIN table.owners_map
    THEN [table |-> table, index |-> table.owners_map[address]]
    ELSE LET index == Len(table.owners_vec)
         IN  [table |-> [owners_vec |-> Append(table.owners_vec, address),
                         owners_map |-> [a \in DOMAIN table.owners_map \cup {address} |->
                                           IF a = address THEN index ELSE table.owners_map[a]]],
              index |-> index]

RECURSIVE Flatten(_)
Flatten(ss) == IF ss = <<>> THEN <<>> ELSE Head(ss) \o Flatten(Tail(ss))

write_owners_block(storage, owners_table) ==
    write_bytes(storage, Flatten([i \in 1..Len(owners_table) |-> Pubkey(owners_table[i])]))

\* a faulty write_index_block that writes the entries last to first (C2
\* fails of it)
write_index_block_reversed(storage, index_entries) ==
    LET n == Len(index_entries)
    IN  write_bytes(storage,
            Flatten([i \in 1..n |-> Pubkey(index_entries[n + 1 - i].address)])
            \o Flatten([i \in 1..n |-> U64(index_entries[n + 1 - i].block_offset)]))

\* ----------------------------------------------------------------- index
\* AccountIndex::write_index_block: every address, then every block offset
write_index_block(storage, index_entries) ==
    write_bytes(storage,
        Flatten([i \in 1..Len(index_entries) |-> Pubkey(index_entries[i].address)])
        \o Flatten([i \in 1..Len(index_entries) |-> U64(index_entries[i].block_offset)]))

\* ---------------------------------------------------------------- footer
TieredStorageFooter_default ==
    [account_meta_format |-> AccountMetaFormat_Hot, owners_block_format |-> 0,
     account_index_format |-> 0, data_block_format |-> 0,
     account_entry_count |-> 0, account_meta_entry_size |-> 0,
     account_block_size |-> 0, owner_count |-> 0, owner_entry_size |-> 0,
     account_index_offset |-> 0, owners_offset |-> 0,
     min_account_address |-> 0, max_account_address |-> 0,
     footer_size |-> FOOTER_SIZE, format_version |-> FOOTER_FORMAT_VERSION]

\* the footer's fields ahead of the hash, in file order (136 bytes)
TieredStorageFooter_body(footer) ==
    LE(footer.account_meta_format, 8) \o LE(footer.owners_block_format, 8)
    \o LE(footer.account_index_format, 8) \o LE(footer.data_block_format, 8)
    \o LE(footer.account_entry_count, 4) \o LE(footer.account_meta_entry_size, 4)
    \o LE(footer.account_block_size, 8)
    \o LE(footer.owner_count, 4) \o LE(footer.owner_entry_size, 4)
    \o LE(footer.account_index_offset, 8) \o LE(footer.owners_offset, 8)
    \o Pubkey(footer.min_account_address) \o Pubkey(footer.max_account_address)

\* write_footer_block: the body, the hash of every byte written before it,
\* the tail (footer_size, format_version), the magic number
write_footer_block(storage, footer) ==
    LET s1 == write_bytes(storage, TieredStorageFooter_body(footer))
        s2 == write_bytes(s1, TieredWritableFile_hash(s1))
        s3 == write_bytes(s2, LE(footer.footer_size, 8) \o LE(footer.format_version, 8))
    IN  write_bytes(s3, FILE_MAGIC_NUMBER)

\* ---------------------------------------------------------------- writer
\* get_account_fields: (lamports, owner, rent_epoch, data), or the defaults
\* when the account is None
get_account_fields(account) ==
    IF account # <<>>
    THEN [lamports |-> account[1].lamports, owner |-> account[1].owner,
          rent_epoch |-> account[1].rent_epoch, data |-> account[1].data]
    ELSE [lamports |-> 0, owner |-> 0, rent_epoch |-> U64_MAX, data |-> <<>>]

\* the format a writable TieredStorage is made with: the four discriminants
HOT_FORMAT ==
    [account_meta_format |-> AccountMetaFormat_Hot, owners_block_format |-> 0,
     account_index_format |-> 0, account_block_format |-> 0]

\* a format that names the cold account meta
COLD_META_FORMAT == [HOT_FORMAT EXCEPT !.account_meta_format = AccountMetaFormat_Cold]

\* A writer in progress: the file, the owners table, the footer with the
\* discriminants of the writer's format.
TieredStorageWriter_new(format) ==
    [storage |-> TieredWritableFile_new, owners_table |-> <<>>,
     footer |-> [TieredStorageFooter_default EXCEPT
                    !.account_meta_format = format.account_meta_format,
                    !.owners_block_format = format.owners_block_format,
                    !.data_block_format = format.account_block_format,
                    !.account_index_format = format.account_index_format]]

\* write_single_account: one account into a block of its own; .size is the
\* stored size it returns
\* a faulty write_single_account that pads to one byte short of the
\* boundary (C20 fails of it)
write_single_account_short_padding(w, account, account_hash, write_version) ==
    LET f == get_account_fields(account)
        ins == try_insert(w.owners_table, f.owner)
        optional_fields ==
            AccountMetaOptionalFields_new_from_fields(f.rent_epoch, account_hash, write_version)
        flags == AccountMetaFlags_new_from(optional_fields)
        padding == (7 - (Len(f.data) % 8)) % 8
        meta == [lamports |-> f.lamports, owner_index |-> ins.index,
                 padding |-> padding, flags |-> flags]
        account_block == HotAccountMeta_bytes(meta) \o f.data
                         \o [i \in 1..padding |-> PADDING_BYTE]
                         \o write_optional_fields(optional_fields)
    IN  [w |-> [storage |-> write_bytes(w.storage, account_block),
                owners_table |-> ins.table,
                footer |-> [w.footer EXCEPT !.account_entry_count = @ + 1]],
         size |-> Len(account_block)]

write_single_account(w, account, account_hash, write_version) ==
    LET f == get_account_fields(account)
        ins == try_insert(w.owners_table, f.owner)
        optional_fields ==
            AccountMetaOptionalFields_new_from_fields(f.rent_epoch, account_hash, write_version)
        flags == AccountMetaFlags_new_from(optional_fields)
        padding == (8 - (Len(f.data) % 8)) % 8
        meta == [lamports |-> f.lamports, owner_index |-> ins.index,
                 padding |-> padding, flags |-> flags]
        account_block == HotAccountMeta_bytes(meta) \o f.data
                         \o [i \in 1..padding |-> PADDING_BYTE]
                         \o write_optional_fields(optional_fields)
    IN  [w |-> [storage |-> write_bytes(w.storage, account_block),
                owners_table |-> ins.table,
                footer |-> [w.footer EXCEPT !.account_entry_count = @ + 1]],
         size |-> Len(account_block)]

\* a faulty loop that records the cursor after the block, not ahead of it
\* (C25 fails of it)
RECURSIVE write_account_blocks_offset_after(_, _, _, _, _)
write_account_blocks_offset_after(w, accounts, i, cursor, index_entries) ==
    IF i >= Len(accounts)
    THEN [w |-> w, cursor |-> cursor, index_entries |-> index_entries]
    ELSE LET in == StorableAccounts_get(accounts, i)
             one == write_single_account(w, in.account, in.hash, in.write_version)
         IN  write_account_blocks_offset_after(one.w, accounts, i + 1, cursor + one.size,
                 Append(index_entries,
                        [address |-> in.address, block_offset |-> cursor + one.size]))

\* the loop of write_accounts over i in skip..len
RECURSIVE write_account_blocks(_, _, _, _, _)
write_account_blocks(w, accounts, i, cursor, index_entries) ==
    IF i >= Len(accounts)
    THEN [w |-> w, cursor |-> cursor, index_entries |-> index_entries]
    ELSE LET in == StorableAccounts_get(accounts, i)
             one == write_single_account(w, in.account, in.hash, in.write_version)
         IN  write_account_blocks(one.w, accounts, i + 1, cursor + one.size,
                 Append(index_entries, [address |-> in.address, block_offset |-> cursor]))

\* write_accounts: every byte the writer puts into the file, in write order,
\* and the value it returns
write_accounts(format, accounts, skip) ==
    LET blocks == write_account_blocks(TieredStorageWriter_new(format), accounts, skip, 0, <<>>)
        footer1 == [blocks.w.footer EXCEPT !.account_index_offset = blocks.cursor]
        s1 == write_index_block(blocks.w.storage, blocks.index_entries)
        cursor1 == blocks.cursor + (Len(s1.bytes) - Len(blocks.w.storage.bytes))
        footer2 == [footer1 EXCEPT !.owners_offset = cursor1]
        s2 == write_owners_block(s1, blocks.w.owners_table)
        s3 == write_footer_block(s2, footer2)
    IN  [bytes |-> s3.bytes, result |-> [kind |-> "Unsupported"]]

\* --------------------------------------------------------- readable file
\* A path holds no file (<<>>) or one file (<<bytes>>).
Ok == [kind |-> "Ok"]
Io == [kind |-> "Io"]

\* a faulty check_magic_number that looks at the length only (C8 fails of it)
check_magic_number_length_only(bytes) ==
    IF Len(bytes) < 8 THEN [kind |-> "Io"] ELSE [kind |-> "Ok"]

\* check_magic_number: the last 8 bytes against FILE_MAGIC_NUMBER
check_magic_number(bytes) ==
    IF Len(bytes) < 8 THEN Io
    ELSE LET magic_number == Slice(bytes, Len(bytes) - 8, 8)
         IN  IF magic_number # FILE_MAGIC_NUMBER
             THEN [kind |-> "MagicNumberMismatch", expected |-> FILE_MAGIC_NUMBER,
                   observed |-> magic_number]
             ELSE Ok

\* a faulty check_file_hash that compares nothing (C6 fails of it)
check_file_hash_skipped(bytes, overflow_checks) ==
    IF Len(bytes) - HASH_SIZE - FOOTER_TAIL_SIZE < 0
    THEN (IF overflow_checks THEN [kind |-> "Panic"] ELSE Io)
    ELSE Ok

\* check_file_hash: the hash of the first len - 32 - 24 bytes against the 32
\* bytes that follow them.  On a file shorter than 56 bytes the subtraction
\* underflows: a panic where overflow is checked, else a read past the end.
check_file_hash(bytes, overflow_checks) ==
    LET len == Len(bytes)
        hashed_len == len - HASH_SIZE - FOOTER_TAIL_SIZE
    IN  IF hashed_len < 0 THEN (IF overflow_checks THEN [kind |-> "Panic"] ELSE Io)
        ELSE LET hash == Blake3(Slice(bytes, 0, hashed_len))
                 hash_from_file == Slice(bytes, hashed_len, HASH_SIZE)
             IN  IF hash = hash_from_file THEN Ok
                 ELSE [kind |-> "FileHashMismatch", computed |-> hash,
                       stored |-> hash_from_file]

\* a faulty TieredReadableFile::new that checks the hash ahead of the magic
\* number (C7 fails of it)
TieredReadableFile_new_hash_first(file, overflow_checks) ==
    IF file = <<>> THEN Io
    ELSE LET hashed == check_file_hash(file[1], overflow_checks)
         IN  IF hashed # Ok THEN hashed ELSE check_magic_number(file[1])

\* TieredReadableFile::new: open, then the magic number, then the hash
TieredReadableFile_new(file, overflow_checks) ==
    IF file = <<>> THEN Io
    ELSE LET magic == check_magic_number(file[1])
         IN  IF magic # Ok THEN magic ELSE check_file_hash(file[1], overflow_checks)

TieredStorageFooter_from_bytes(b) ==
    [account_meta_format |-> FromLE(Slice(b, 0, 8)),
     owners_block_format |-> FromLE(Slice(b, 8, 8)),
     account_index_format |-> FromLE(Slice(b, 16, 8)),
     data_block_format |-> FromLE(Slice(b, 24, 8)),
     account_entry_count |-> FromLE(Slice(b, 32, 4)),
     account_meta_entry_size |-> FromLE(Slice(b, 36, 4)),
     account_block_size |-> FromLE(Slice(b, 40, 8)),
     owner_count |-> FromLE(Slice(b, 48, 4)),
     owner_entry_size |-> FromLE(Slice(b, 52, 4)),
     account_index_offset |-> FromLE(Slice(b, 56, 8)),
     owners_offset |-> FromLE(Slice(b, 64, 8)),
     min_account_address |-> Slice(b, 72, 32),
     max_account_address |-> Slice(b, 104, 32),
     hash |-> Slice(b, 136, 32),
     footer_size |-> FromLE(Slice(b, 168, 8)),
     format_version |-> FromLE(Slice(b, 176, 8))]

\* new_from_footer_block: the 24-byte tail first (footer_size, format_version,
\* magic number), then the footer footer_size bytes before the end
new_from_footer_block(bytes) ==
    IF Len(bytes) < FOOTER_TAIL_SIZE THEN Io
    ELSE LET len == Len(bytes)
             footer_size == FromLE(Slice(bytes, len - 24, 8))
             magic_number == Slice(bytes, len - 8, 8)
         IN  IF magic_number # FILE_MAGIC_NUMBER THEN Io
             ELSE IF footer_size < FOOTER_STRUCT_SIZE \/ footer_size > len THEN Io
             ELSE [kind |-> "Ok",
                   footer |-> TieredStorageFooter_from_bytes(
                                  Slice(bytes, len - footer_size, FOOTER_STRUCT_SIZE))]

\* TieredStorageReader::new_from_path: the file checks, the footer, then the
\* reader the footer's account meta format names (the map and the footer)
TieredStorageReader_new_from_path(file, overflow_checks) ==
    LET opened == TieredReadableFile_new(file, overflow_checks)
    IN  IF opened # Ok THEN opened
        ELSE LET loaded == new_from_footer_block(file[1])
             IN  IF loaded.kind # "Ok" THEN loaded
                 ELSE IF loaded.footer.account_meta_format # AccountMetaFormat_Hot
                 THEN [kind |-> "UnsupportedAccountMetaFormat"]
                 ELSE [kind |-> "Ok",
                       reader |-> [map |-> file[1], footer |-> loaded.footer]]

\* The footer is filled by read_type, a raw copy of the bytes of the file
\* over the struct, so its account_meta_format holds whatever the file
\* holds. A value the enum does not define is undefined behaviour in the
\* match of new_from_path: the build takes it for one variant or another,
\* `taken_as`.
TieredStorageReader_new_from_path_as(file, overflow_checks, taken_as) ==
    LET opened == TieredReadableFile_new(file, overflow_checks)
    IN  IF opened # Ok THEN opened
        ELSE LET loaded == new_from_footer_block(file[1])
             IN  IF loaded.kind # "Ok" THEN loaded
                 ELSE IF loaded.footer.account_meta_format \in AccountMetaFormats
                 THEN TieredStorageReader_new_from_path(file, overflow_checks)
                 ELSE IF taken_as # AccountMetaFormat_Hot
                 THEN [kind |-> "UnsupportedAccountMetaFormat"]
                 ELSE [kind |-> "Ok",
                       reader |-> [map |-> file[1], footer |-> loaded.footer]]

\* what the match may take the file's account meta format for: the variant
\* itself when the enum defines it, any variant when it does not
taken_as_variants(file) ==
    LET loaded == IF file = <<>> THEN Io ELSE new_from_footer_block(file[1])
    IN  IF loaded.kind # "Ok" THEN {AccountMetaFormat_Hot}
        ELSE IF loaded.footer.account_meta_format \in AccountMetaFormats
        THEN {loaded.footer.account_meta_format}
        ELSE AccountMetaFormats

\* ----------------------------------------------------------- hot reader
\* get_type / get_slice: n bytes of the map at an offset, None past the end
get_type(map, offset, n) ==
    IF offset >= 0 /\ n >= 0 /\ offset + n <= Len(map)
    THEN <<Slice(map, offset, n)>> ELSE <<>>

num_accounts(reader) == reader.footer.account_entry_count

multiplied_index_to_index(multiplied_index) == multiplied_index \div ALIGN_BOUNDARY_OFFSET

\* the offset of the index-th address of the index block
get_pubkey_offset(footer, index) == footer.account_index_offset + PUBKEY_SIZE * index

\* the block offset the index block holds for the index-th account; -1 when
\* it cannot be read
get_meta_offset(map, footer, index) ==
    LET at == get_type(map, footer.account_index_offset
                            + PUBKEY_SIZE * footer.account_entry_count + 8 * index, 8)
    IN  IF at = <<>> THEN 0 - 1 ELSE FromLE(at[1])

get_account_meta_from_offset(reader, offset) ==
    LET at == get_type(reader.map, offset, HOT_ACCOUNT_META_SIZE)
    IN  IF at = <<>> THEN <<>> ELSE <<HotAccountMeta_from_bytes(at[1])>>

get_account_meta(reader, index) ==
    get_account_meta_from_offset(reader, get_meta_offset(reader.map, reader.footer, index))

get_account_address(reader, index) ==
    get_type(reader.map, get_pubkey_offset(reader.footer, index), PUBKEY_SIZE)

get_owner_address(reader, index) ==
    LET meta == get_account_meta(reader, index)
    IN  IF meta = <<>> THEN <<>>
        ELSE get_type(reader.map,
                 reader.footer.owners_offset + PUBKEY_SIZE * meta[1].owner_index, PUBKEY_SIZE)

Saturating(n) == IF n < 0 THEN 0 ELSE n

get_account_block_size(reader, meta_offset, index) ==
    IF index + 1 = reader.footer.account_entry_count
    THEN reader.footer.account_index_offset - meta_offset - HOT_ACCOUNT_META_SIZE
    ELSE Saturating(Saturating(get_meta_offset(reader.map, reader.footer, index + 1)
                               - meta_offset) - HOT_ACCOUNT_META_SIZE)

get_account_block(reader, meta_offset, index) ==
    get_type(reader.map, meta_offset + HOT_ACCOUNT_META_SIZE,
             get_account_block_size(reader, meta_offset, index))

\* a faulty get_account whose next index is one further, not one account
\* further (C9 fails of it)
get_account_next_byte(reader, multiplied_index) ==
    LET index == multiplied_index_to_index(multiplied_index)
        meta_offset == get_meta_offset(reader.map, reader.footer, index)
        meta == get_account_meta_from_offset(reader, meta_offset)
        address == get_account_address(reader, index)
        owner == get_owner_address(reader, index)
        account_block == get_account_block(reader, meta_offset, index)
    IN  IF index >= reader.footer.account_entry_count THEN [kind |-> "None"]
        ELSE IF meta_offset < 0 \/ meta = <<>> \/ address = <<>> \/ owner = <<>>
                \/ account_block = <<>>
        THEN [kind |-> "Panic"]
        ELSE [kind |-> "Some",
              account |-> [meta |-> meta[1], address |-> address[1], owner |-> owner[1],
                           index |-> multiplied_index, account_block |-> account_block[1]],
              next |-> multiplied_index + 1]

\* HotStorageReader::get_account: None past the last account, else the
\* account and the multiplied index of the next one; a failed unwrap panics
get_account(reader, multiplied_index) ==
    LET index == multiplied_index_to_index(multiplied_index)
        meta_offset == get_meta_offset(reader.map, reader.footer, index)
        meta == get_account_meta_from_offset(reader, meta_offset)
        address == get_account_address(reader, index)
        owner == get_owner_address(reader, index)
        account_block == get_account_block(reader, meta_offset, index)
    IN  IF index >= reader.footer.account_entry_count THEN [kind |-> "None"]
        ELSE IF meta_offset < 0 \/ meta = <<>> \/ address = <<>> \/ owner = <<>>
                \/ account_block = <<>>
        THEN [kind |-> "Panic"]
        ELSE [kind |-> "Some",
              account |-> [meta |-> meta[1], address |-> address[1], owner |-> owner[1],
                           index |-> multiplied_index, account_block |-> account_block[1]],
              next |-> multiplied_index + ALIGN_BOUNDARY_OFFSET]

\* HotStorageReader::account_matches_owners; owners is a sequence of addresses
account_matches_owners(reader, multiplied_index, owners) ==
    LET index == multiplied_index_to_index(multiplied_index)
        owner == get_owner_address(reader, index)
    IN  IF index >= num_accounts(reader) THEN [kind |-> "UnableToLoad"]
        ELSE IF owner = <<>> THEN [kind |-> "Panic"]
        ELSE LET position == PositionIn(owners, owner[1], 1)
             IN  IF position < 0 THEN [kind |-> "NoMatch"]
                 ELSE [kind |-> "Ok", position |-> position]

\* ------------------------------------------------ the account read back
\* a faulty optional_fields_offset that takes the padding off as well
\* (C27 fails of it)
optional_fields_offset_less_padding(meta, account_block) ==
    Saturating(Len(account_block) - AccountMetaOptionalFields_size_from_flags(meta.flags)
               - meta.padding)

optional_fields_offset(meta, account_block) ==
    Saturating(Len(account_block) - AccountMetaOptionalFields_size_from_flags(meta.flags))

rent_epoch_offset(flags) == 0

account_hash_offset(flags) == Bit(flags.has_rent_epoch, 8)

write_version_offset(flags) ==
    Bit(flags.has_rent_epoch, 8) + Bit(flags.has_account_hash, HASH_SIZE)

\* byte_block::read_type inside an account block: Option
meta_rent_epoch(meta, account_block) ==
    IF meta.flags.has_rent_epoch
    THEN get_type(account_block,
             optional_fields_offset(meta, account_block) + rent_epoch_offset(meta.flags), 8)
    ELSE <<>>

meta_account_hash(meta, account_block) ==
    IF meta.flags.has_account_hash
    THEN get_type(account_block,
             optional_fields_offset(meta, account_block) + account_hash_offset(meta.flags),
             HASH_SIZE)
    ELSE <<>>

meta_write_version(meta, account_block) ==
    IF meta.flags.has_write_version
    THEN get_type(account_block,
             optional_fields_offset(meta, account_block) + write_version_offset(meta.flags), 8)
    ELSE <<>>

account_data_size(meta, account_block) ==
    Saturating(optional_fields_offset(meta, account_block) - meta.padding)

account_data(meta, account_block) ==
    SubSeq(account_block, 1, account_data_size(meta, account_block))

\* TieredReadableAccount as a ReadableAccount plus hash and write version
TieredReadableAccount_fields(account) ==
    [lamports |-> account.meta.lamports,
     owner |-> account.owner,
     executable |-> account.meta.flags.executable,
     rent_epoch |-> LET r == meta_rent_epoch(account.meta, account.account_block)
                    IN  IF r = <<>> THEN U64(U64_MAX) ELSE r[1],
     data |-> account_data(account.meta, account.account_block),
     address |-> account.address,
     hash |-> meta_account_hash(account.meta, account.account_block),
     write_version |-> meta_write_version(account.meta, account.account_block)]

\* ------------------------------------------------------------------ state
VARIABLES
    file,       \* the storage path: <<>> (no file) or <<bytes>>
    storage,    \* the TieredStorage instance: <<>> or <<[reader, format]>>
    calls,      \* write_accounts calls returned on the instance: 0, 1, 2 (or more)
    written,    \* <<>> or <<[accounts, skip, format]>>: the input the file was written from
    result,     \* what the last new_readonly, write_accounts or drop returned
    found,      \* what the last get_account or account_matches_owners returned
    iter,       \* the accounts(start) loop: [on, start, index, visited]
    damage,     \* what happened to the file outside a completed write: [kind, at]
    procs       \* two write_accounts calls in flight at once: [mode, insts, calls]

vars == <<file, storage, calls, written, result, found, iter, damage, procs>>

Min(a, b) == IF a < b THEN a ELSE b

Path == "path"
Nothing == [op |-> "none"]
Idle == [op |-> "none"]
IterOff == [on |-> FALSE, start |-> 0, index |-> 0, visited |-> <<>>]
NoDamage == [kind |-> "none", at |-> 0]
NoProcs == [mode |-> "none"]

\* multiplied indexes asked for: on the 8-byte boundary and off it
Indexes == {ALIGN_BOUNDARY_OFFSET * k + r : k \in 0..(MaxBatch + 1), r \in {0, 5}}
AlignedIndexes == {ALIGN_BOUNDARY_OFFSET * k : k \in 0..(MaxBatch + 1)}
OwnerLists == SeqsUpTo({Pubkey(0), Pubkey(1)}, 2)

Init ==
    /\ file = <<>>
    /\ storage = <<>>
    /\ calls = 0
    /\ written = <<>>
    /\ result = Nothing
    /\ found = Idle
    /\ iter = IterOff
    /\ damage = NoDamage
    /\ procs = NoProcs

is_read_only(s) == s.reader # <<>>

\* TieredStorage::new_writable: an instance with no reader and no file yet
NewWritableWith(format) ==
    /\ UNCHANGED procs
    /\ storage = <<>>
    /\ storage' = <<[reader |-> <<>>, format |-> <<format>>]>>
    /\ calls' = 0
    /\ result' = Nothing
    /\ found' = Idle
    /\ iter' = IterOff
    /\ UNCHANGED <<file, written, damage>>

NewWritable == NewWritableWith(HOT_FORMAT)

\* TieredStorage::new_readonly: an instance only if the file opens
NewReadonly ==
    /\ UNCHANGED procs
    /\ storage = <<>>
    /\ \E overflow_checks \in BOOLEAN : \E taken_as \in taken_as_variants(file) :
         LET opened == TieredStorageReader_new_from_path_as(file, overflow_checks, taken_as)
         IN  /\ storage' = IF opened.kind = "Ok"
                           THEN <<[reader |-> <<opened.reader>>, format |-> <<>>]>>
                           ELSE <<>>
             /\ result' = [op |-> "new_readonly",
                           ret |-> IF opened.kind = "Ok" THEN Ok ELSE opened]
    /\ calls' = 0
    /\ found' = Idle
    /\ iter' = IterOff
    /\ UNCHANGED <<file, written, damage>>

\* a faulty end of write_accounts where the writer going out of scope takes
\* the file with it (C13 fails of it)
AfterWriter_writer_removes_file(accounts, skip, bytes, returned, overflow_checks) ==
    /\ file' = <<>>
    /\ written' = <<[accounts |-> accounts, skip |-> skip,
                      format |-> storage[1].format[1]]>>
    /\ storage' = storage
    /\ result' = [op |-> "write_accounts", ret |-> Io]

\* what TieredStorage::write_accounts does once the writer has stopped with
\* `bytes` in the file and `returned` as its result: the reader is opened on
\* the file; an error there is what the call returns
AfterWriter(accounts, skip, bytes, returned, overflow_checks) ==
    LET opened == TieredStorageReader_new_from_path(<<bytes>>, overflow_checks)
    IN  /\ file' = <<bytes>>
        /\ written' = <<[accounts |-> accounts, skip |-> skip,
                          format |-> storage[1].format[1]]>>
        /\ storage' = IF opened.kind = "Ok"
                      THEN <<[storage[1] EXCEPT !.reader = <<opened.reader>>]>>
                      ELSE storage
        /\ result' = [op |-> "write_accounts",
                      ret |-> IF opened.kind = "Ok" THEN returned ELSE opened]

\* TieredStorage::write_accounts when the writer meets no I/O error: refused
\* on a read-only instance; else the writer is created (the file must not
\* exist) and writes the whole file
WriteAccountsFrom(pool_batches, max_skip) ==
    /\ UNCHANGED procs
    /\ storage # <<>>
    /\ ~iter.on
    /\ calls' = Min(calls + 1, 2)
    /\ found' = Idle
    /\ iter' = IterOff
    /\ IF is_read_only(storage[1])
       THEN /\ result' = [op |-> "write_accounts",
                           ret |-> [kind |-> "AttemptToUpdateReadOnly", path |-> Path]]
            /\ UNCHANGED <<file, storage, written, damage>>
       ELSE IF file # <<>>
       THEN /\ result' = [op |-> "write_accounts", ret |-> Io]
            /\ UNCHANGED <<file, storage, written, damage>>
       ELSE \E accounts \in pool_batches : \E skip \in 0..Min(Len(accounts), max_skip) :
              LET done == write_accounts(storage[1].format[1], accounts, skip)
              IN  /\ AfterWriter(accounts, skip, done.bytes, done.result, TRUE)
                  /\ damage' = NoDamage

WriteAccounts == WriteAccountsFrom(Batches, MaxBatch)

\* a faulty Drop that lets the file be (C12 fails of it)
Drop_keeps_file ==
    /\ UNCHANGED procs
    /\ storage # <<>>
    /\ ~iter.on
    /\ storage' = <<>>
    /\ result' = [op |-> "drop", ret |-> IF file = <<>> THEN [kind |-> "Panic"] ELSE Ok]
    /\ calls' = 0
    /\ found' = Idle
    /\ iter' = IterOff
    /\ UNCHANGED <<file, written, damage>>

\* Drop for TieredStorage: removes the file; panics when that fails
Drop ==
    /\ UNCHANGED procs
    /\ storage # <<>>
    /\ ~iter.on
    /\ storage' = <<>>
    /\ file' = <<>>
    /\ written' = <<>>
    /\ damage' = NoDamage
    /\ result' = [op |-> "drop", ret |-> IF file = <<>> THEN [kind |-> "Panic"] ELSE Ok]
    /\ calls' = 0
    /\ found' = Idle
    /\ iter' = IterOff

\* the instance is let go without Drop (ManuallyDrop, or the process ends)
Forget ==
    /\ UNCHANGED procs
    /\ storage # <<>>
    /\ ~iter.on
    /\ storage' = <<>>
    /\ calls' = 0
    /\ result' = Nothing
    /\ found' = Idle
    /\ iter' = IterOff
    /\ UNCHANGED <<file, written, damage>>

\* TieredStorage::get_account: None without a reader
TieredStorage_get_account(s, multiplied_index) ==
    IF s.reader = <<>> THEN [kind |-> "None"]
    ELSE get_account(s.reader[1], multiplied_index)

\* TieredStorage::account_matches_owners: UnableToLoad without a reader
TieredStorage_account_matches_owners(s, multiplied_index, owners) ==
    IF s.reader = <<>> THEN [kind |-> "UnableToLoad"]
    ELSE account_matches_owners(s.reader[1], multiplied_index, owners)

GetAccount ==
    /\ UNCHANGED procs
    /\ storage # <<>>
    /\ ~iter.on
    /\ found = Idle
    /\ \E multiplied_index \in Indexes :
         found' = [op |-> "get_account", index |-> multiplied_index,
                   res |-> TieredStorage_get_account(storage[1], multiplied_index)]
    /\ iter' = IterOff
    /\ UNCHANGED <<file, storage, calls, written, result, damage>>

AccountMatchesOwners ==
    /\ UNCHANGED procs
    /\ storage # <<>>
    /\ ~iter.on
    /\ found = Idle
    /\ \E multiplied_index \in AlignedIndexes : \E owners \in OwnerLists :
         found' = [op |-> "account_matches_owners", index |-> multiplied_index,
                   owners |-> owners,
                   res |-> TieredStorage_account_matches_owners(storage[1],
                               multiplied_index, owners)]
    /\ iter' = IterOff
    /\ UNCHANGED <<file, storage, calls, written, result, damage>>

\* TieredStorage::accounts(start): the loop starts ...
AccountsStart ==
    /\ UNCHANGED procs
    /\ storage # <<>>
    /\ ~iter.on
    /\ found = Idle
    /\ \E start \in Indexes :
         iter' = [on |-> TRUE, start |-> start, index |-> start, visited |-> <<>>]
    /\ found' = Idle
    /\ UNCHANGED <<file, storage, calls, written, result, damage>>

\* ... and takes one turn: the account is pushed and the loop moves to the
\* next index, or get_account returns None and the loop ends
AccountsStep ==
    /\ UNCHANGED procs
    /\ iter.on
    /\ LET got == TieredStorage_get_account(storage[1], iter.index)
       IN  IF got.kind = "Some"
           THEN /\ iter' = [iter EXCEPT !.index = got.next,
                                        !.visited = Append(@, got.account.index)]
                /\ found' = Idle
           ELSE /\ iter' = IterOff
                /\ found' = [op |-> "accounts", index |-> iter.start,
                             visited |-> iter.visited, res |-> got]
    /\ UNCHANGED <<file, storage, calls, written, result, damage>>

\* the caller takes what the last read returned; reads come one at a time
TakeResult ==
    /\ UNCHANGED procs
    /\ found # Idle
    /\ found' = Idle
    /\ UNCHANGED <<file, storage, calls, written, result, iter, damage>>

\* ----------------------------------------------------------------- faults
\* an account whose data is itself the image of a footer: a footer body for
\* an empty file, the hash of the bytes that precede the hash once the
\* account's meta and this data are written first, the tail, the magic number
FooterLikeMeta ==
    [lamports |-> 1, owner_index |-> 0, padding |-> 0,
     flags |-> [has_rent_epoch |-> FALSE, has_account_hash |-> FALSE,
                has_write_version |-> FALSE, executable |-> FALSE]]

FooterLikeData ==
    LET body == TieredStorageFooter_body(TieredStorageFooter_default)
    IN  body \o Blake3(HotAccountMeta_bytes(FooterLikeMeta) \o body)
        \o LE(FOOTER_SIZE, 8) \o LE(FOOTER_FORMAT_VERSION, 8) \o FILE_MAGIC_NUMBER

FaultPool ==
    { Account(5, 1, FALSE, 7, <<1, 2, 3>>, 1, 1, 3),
      Account(1, 1, FALSE, U64_MAX, FooterLikeData, 4, 0, U64_MAX) }

FaultBatches == SeqsUpTo(FaultPool, MaxFaultBatch)

\* how a damaged byte differs from the byte written
Deltas == {1, 255}

WriteAccountsWhole == WriteAccountsFrom(FaultBatches, 0)

\* TieredStorage::write_accounts when the writer stops on an I/O error with
\* only the first n bytes of the file written
WriteAccountsInterrupted ==
    /\ UNCHANGED procs
    /\ storage # <<>>
    /\ ~is_read_only(storage[1])
    /\ file = <<>>
    /\ calls' = Min(calls + 1, 2)
    /\ found' = Idle
    /\ iter' = IterOff
    /\ \E accounts \in FaultBatches : \E overflow_checks \in BOOLEAN :
         LET whole == write_accounts(storage[1].format[1], accounts, 0).bytes
         IN  \E n \in 0..(Len(whole) - 1) :
               /\ AfterWriter(accounts, 0, SubSeq(whole, 1, n), Io, overflow_checks)
               /\ damage' = [kind |-> "cut", at |-> n]

\* one byte of a complete file changes while no instance holds the file
Tamper ==
    /\ UNCHANGED procs
    /\ storage = <<>>
    /\ file # <<>>
    /\ damage = NoDamage
    /\ \E at \in 0..(Len(file[1]) - 1) : \E delta \in Deltas :
         /\ file' = <<[file[1] EXCEPT ![at + 1] = (@ + delta) % 256]>>
         /\ damage' = [kind |-> "byte", at |-> at]
    /\ result' = Nothing
    /\ UNCHANGED <<storage, calls, written, found, iter>>

\* the life of a storage file and of the instance over it
Next ==
    \/ NewWritable
    \/ NewReadonly
    \/ WriteAccounts
    \/ Drop
    \/ Forget

Spec == Init /\ [][Next]_vars

\* writing, then reading back
NextRead ==
    \/ NewWritable
    \/ WriteAccounts
    \/ GetAccount
    \/ AccountMatchesOwners
    \/ AccountsStart
    \/ AccountsStep
    \/ TakeResult

SpecRead == Init /\ [][NextRead]_vars

\* writes that stop early, files damaged at rest, and opening them, from a
\* TieredStorage just made by new_writable
InitFault ==
    /\ file = <<>>
    /\ storage = <<[reader |-> <<>>, format |-> <<HOT_FORMAT>>]>>
    /\ calls = 0
    /\ written = <<>>
    /\ result = Nothing
    /\ found = Idle
    /\ iter = IterOff
    /\ damage = NoDamage
    /\ procs = NoProcs

NextFault ==
    \/ WriteAccountsWhole
    \/ WriteAccountsInterrupted
    \/ Tamper
    \/ NewReadonly
    \/ Forget

SpecFault == InitFault /\ [][NextFault]_vars

\* writers of either format, and the files they leave opened again
Formats == {HOT_FORMAT, COLD_META_FORMAT}

\* the format of a writer of a later build, whose account meta format this
\* build does not know
LATER_META_FORMAT == [HOT_FORMAT EXCEPT !.account_meta_format = AccountMetaFormat_Later]

\* a file written by such a build is put at the path
LaterBuildFile ==
    /\ UNCHANGED procs
    /\ storage = <<>>
    /\ file = <<>>
    /\ \E accounts \in Batches :
         /\ file' = <<write_accounts(LATER_META_FORMAT, accounts, 0).bytes>>
         /\ written' = <<[accounts |-> accounts, skip |-> 0, format |-> LATER_META_FORMAT]>>
    /\ result' = Nothing
    /\ UNCHANGED <<storage, calls, found, iter, damage>>

NewWritableAny == \E format \in Formats : NewWritableWith(format)

NextFormat ==
    \/ NewWritableAny
    \/ LaterBuildFile
    \/ WriteAccounts
    \/ Forget
    \/ NewReadonly
    \/ GetAccount
    \/ TakeResult

SpecFormat == Init /\ [][NextFormat]_vars

\* ------------------------------------------------- creating the file
\* The constructors that open a path for writing, each as what it returns
\* and what the path holds afterwards.
\* TieredWritableFile::new: create_new, so an existing file is an error
\* a faulty TieredWritableFile::new that opens with create and truncate, so
\* a file already there is taken over (C15 fails of it)
TieredWritableFile_create_truncating(at_path) ==
    [ret |-> Ok, file |-> << <<>> >>]

TieredWritableFile_create(at_path) ==
    IF at_path # <<>> THEN [ret |-> Io, file |-> at_path]
    ELSE [ret |-> Ok, file |-> << <<>> >>]

\* TieredStorageFile::new(path, create): with create an existing file is
\* opened as it is and a missing one is made; without it a missing file
\* panics
TieredStorageFile_new(at_path, create) ==
    IF at_path # <<>> THEN [ret |-> Ok, file |-> at_path]
    ELSE IF create THEN [ret |-> Ok, file |-> << <<>> >>]
    ELSE [ret |-> [kind |-> "Panic"], file |-> at_path]

\* TieredStorageWriter::new of runtime/writer.rs: removes whatever the path
\* holds, then makes the file
LegacyWriter_new(at_path) == [ret |-> Ok, file |-> << <<>> >>]

\* a constructor is called on the path while no instance holds it
Construct(op, made) ==
    /\ UNCHANGED procs
    /\ storage = <<>>
    /\ file' = made.file
    /\ result' = [op |-> op, ret |-> made.ret]
    /\ written' = IF made.file = file THEN written ELSE <<>>
    /\ UNCHANGED <<storage, calls, found, iter, damage>>

CreateWritableFile == Construct("TieredWritableFile::new", TieredWritableFile_create(file))

OpenStorageFile ==
    \E create \in BOOLEAN :
        Construct(IF create THEN "TieredStorageFile::new(create)"
                  ELSE "TieredStorageFile::new(open)",
                  TieredStorageFile_new(file, create))

LegacyWriterNew == Construct("TieredStorageWriter::new", LegacyWriter_new(file))

NextCreate ==
    \/ NewWritable
    \/ WriteAccounts
    \/ Forget
    \/ CreateWritableFile
    \/ OpenStorageFile
    \/ LegacyWriterNew

SpecCreate == Init /\ [][NextCreate]_vars

\* ------------------------------------------- two calls in flight at once
\* Two write_accounts calls on one path: by two threads on one instance
\* ("shared") or on two instances made for the same path ("separate").
\* Each call goes through TieredStorage::write_accounts a step at a time:
\* the read-only check, the creation of the file, one write_bytes after
\* the other, the opening of the reader.
Callers == {1, 2}

ConcPool ==
    { Account(5, 1, FALSE, 7, <<1, 2, 3>>, 1, 1, 3),
      Account(9, 2, TRUE, U64_MAX, <<>>, 2, 0, U64_MAX) }

ConcBatches == SeqsUpTo(ConcPool, MaxConcBatch)

\* the offsets at which the writer's writes start, and the end of the last:
\* every account block, the index block, the owners block, the footer
write_offsets(format, accounts, skip) ==
    LET blocks == write_account_blocks(TieredStorageWriter_new(format), accounts, skip, 0, <<>>)
        index_end == Len(write_index_block(blocks.w.storage, blocks.index_entries).bytes)
        owners_end == index_end + PUBKEY_SIZE * Len(blocks.w.owners_table)
    IN  [i \in 1..Len(blocks.index_entries) |-> blocks.index_entries[i].block_offset]
        \o <<Len(blocks.w.storage.bytes), index_end, owners_end, owners_end + FOOTER_SIZE>>

\* a write of `bytes` at offset `off` of a file: over what is there, or past
\* the end
write_at(old, off, bytes) ==
    LET end == off + Len(bytes)
        len == IF Len(old) > end THEN Len(old) ELSE end
    IN  [i \in 1..len |-> IF i > off /\ i <= end THEN bytes[i - off]
                          ELSE IF i <= Len(old) THEN old[i] ELSE 0]

\* the instance a caller calls write_accounts on
InstOf(t) == IF procs.mode = "shared" THEN 1 ELSE t

\* two calls begin, each with its batch; what the writer of each call will
\* write, where, and what it will return is worked out here and kept with
\* the call
ConcStart ==
    /\ procs = NoProcs
    /\ storage = <<>>
    /\ file = <<>>
    /\ \E mode \in {"shared", "separate"} : \E a1 \in ConcBatches : \E a2 \in ConcBatches :
         procs' = [mode |-> mode,
                   insts |-> [i \in Callers |-> [reader |-> <<>>, format |-> <<HOT_FORMAT>>]],
                   calls |-> [t \in Callers |->
                                LET accounts == IF t = 1 THEN a1 ELSE a2
                                    done == write_accounts(HOT_FORMAT, accounts, 0)
                                IN  [pc |-> "check", accounts |-> accounts,
                                     bytes |-> done.bytes, result |-> done.result,
                                     offsets |-> write_offsets(HOT_FORMAT, accounts, 0),
                                     next |-> 1, created |-> FALSE, ret |-> Nothing]]]
    /\ UNCHANGED <<file, storage, calls, written, result, found, iter, damage>>

Returns(t, ret) ==
    [procs EXCEPT !.calls[t].pc = "done", !.calls[t].ret = ret]

\* if self.is_read_only() { return Err(AttemptToUpdateReadOnly) }
ConcCheck(t) ==
    /\ procs # NoProcs
    /\ procs.calls[t].pc = "check"
    /\ procs' = IF is_read_only(procs.insts[InstOf(t)])
                THEN Returns(t, [kind |-> "AttemptToUpdateReadOnly", path |-> Path])
                ELSE [procs EXCEPT !.calls[t].pc = "create"]
    /\ UNCHANGED <<file, storage, calls, written, result, found, iter, damage>>

\* TieredStorageWriter::new(&self.path, format)?
ConcCreate(t) ==
    /\ procs # NoProcs
    /\ procs.calls[t].pc = "create"
    /\ LET made == TieredWritableFile_create(file)
       IN  /\ file' = made.file
           /\ procs' = IF made.ret = Ok
                        THEN [procs EXCEPT !.calls[t].pc = "write", !.calls[t].created = TRUE]
                        ELSE Returns(t, made.ret)
    /\ UNCHANGED <<storage, calls, written, result, found, iter, damage>>

\* one write_bytes of writer.write_accounts(accounts, skip)
ConcWrite(t) ==
    /\ procs # NoProcs
    /\ procs.calls[t].pc = "write"
    /\ LET c == procs.calls[t]
           off == c.offsets[c.next]
           bytes == Slice(c.bytes, off, c.offsets[c.next + 1] - off)
       IN  /\ file' = <<write_at(file[1], off, bytes)>>
           /\ procs' = IF c.next + 1 = Len(c.offsets)
                        THEN [procs EXCEPT !.calls[t].pc = "open"]
                        ELSE [procs EXCEPT !.calls[t].next = c.next + 1]
    /\ UNCHANGED <<storage, calls, written, result, found, iter, damage>>

\* self.reader.set(TieredStorageReader::new_from_path(&self.path)?).unwrap()
\* and the writer's result returned
ConcOpen(t) ==
    /\ procs # NoProcs
    /\ procs.calls[t].pc = "open"
    /\ LET opened == TieredStorageReader_new_from_path(file, TRUE)
           i == InstOf(t)
       IN  procs' = IF opened.kind # "Ok" THEN Returns(t, opened)
                    ELSE IF is_read_only(procs.insts[i])
                    THEN Returns(t, [kind |-> "Panic"])
                    ELSE [Returns(t, procs.calls[t].result)
                             EXCEPT !.insts[i].reader = <<opened.reader>>]
    /\ UNCHANGED <<file, storage, calls, written, result, found, iter, damage>>

\* both calls have returned: the instances and the file are let go
ConcEnd ==
    /\ procs # NoProcs
    /\ \A t \in Callers : procs.calls[t].pc = "done"
    /\ procs' = NoProcs
    /\ file' = <<>>
    /\ UNCHANGED <<storage, calls, written, result, found, iter, damage>>

NextConc ==
    \/ ConcStart
    \/ \E t \in Callers : ConcCheck(t)
    \/ \E t \in Callers : ConcCreate(t)
    \/ \E t \in Callers : ConcWrite(t)
    \/ \E t \in Callers : ConcOpen(t)
    \/ ConcEnd

SpecConc == Init /\ [][NextConc]_vars

\* ------------------------------------------------- data of every length
\* accounts whose data is 0, 1, ... MaxDataLen bytes long, each with a rent
\* epoch so that an optional field follows the padding
AlignPool ==
    { Account(1, 1, FALSE, 7, [i \in 1..n |-> i], n + 1, 0, U64_MAX) : n \in 0..MaxDataLen }

AlignBatches == SeqsUpTo(AlignPool, MaxAlignBatch)

WriteAccountsAligned == WriteAccountsFrom(AlignBatches, 0)

NextAlign ==
    \/ NewWritable
    \/ WriteAccountsAligned
    \/ Forget

SpecAlign == Init /\ [][NextAlign]_vars

\* ------------------------------------------------- the footer on its own
\* TieredStorageFooter of runtime/footer.rs, a repr(C) struct written and
\* read as its bytes: four u64 formats, the counts and sizes, three offsets,
\* the hash, the address range, footer_size, format_version (192 bytes).
footer_write_type(footer) ==
    LE(footer.account_meta_format, 8) \o LE(footer.owners_block_format, 8)
    \o LE(footer.account_index_format, 8) \o LE(footer.data_block_format, 8)
    \o LE(footer.account_meta_count, 4) \o LE(footer.account_meta_entry_size, 4)
    \o LE(footer.account_data_block_size, 8)
    \o LE(footer.owner_count, 4) \o LE(footer.owner_entry_size, 4)
    \o LE(footer.account_metas_offset, 8) \o LE(footer.account_pubkeys_offset, 8)
    \o LE(footer.owners_offset, 8)
    \o HashValue(footer.hash) \o HashValue(footer.min_account_address)
    \o HashValue(footer.max_account_address)
    \o LE(footer.footer_size, 8) \o LE(footer.format_version, 8)

footer_read_type(b) ==
    [account_meta_format |-> FromLE(Slice(b, 0, 8)),
     owners_block_format |-> FromLE(Slice(b, 8, 8)),
     account_index_format |-> FromLE(Slice(b, 16, 8)),
     data_block_format |-> FromLE(Slice(b, 24, 8)),
     account_meta_count |-> FromLE(Slice(b, 32, 4)),
     account_meta_entry_size |-> FromLE(Slice(b, 36, 4)),
     account_data_block_size |-> FromLE(Slice(b, 40, 8)),
     owner_count |-> FromLE(Slice(b, 48, 4)),
     owner_entry_size |-> FromLE(Slice(b, 52, 4)),
     account_metas_offset |-> FromLE(Slice(b, 56, 8)),
     account_pubkeys_offset |-> FromLE(Slice(b, 64, 8)),
     owners_offset |-> FromLE(Slice(b, 72, 8)),
     hash |-> b[81],
     min_account_address |-> b[113],
     max_account_address |-> b[145],
     footer_size |-> FromLE(Slice(b, 176, 8)),
     format_version |-> FromLE(Slice(b, 184, 8))]

\* write_footer_block: write_type(self), write_type(magic number), after the
\* bytes the file holds
TieredStorageFooter_write_footer_block(bytes, footer) ==
    bytes \o footer_write_type(footer) \o LE(FOOTER_MAGIC_NUMBER, 8)

\* a faulty new_from_footer_block that seeks back by the size of the struct
\* and not by the footer_size of the tail (C22 fails of it)
TieredStorageFooter_new_from_footer_block_struct_size(bytes) ==
    LET len == Len(bytes)
    IN  IF len < FOOTER_TAIL_SIZE THEN Io
        ELSE IF Slice(bytes, len - 8, 8) # LE(FOOTER_MAGIC_NUMBER, 8) THEN Io
        ELSE [kind |-> "Ok",
              footer |-> footer_read_type(
                             Slice(bytes, len - RUNTIME_FOOTER_STRUCT_SIZE, RUNTIME_FOOTER_STRUCT_SIZE))]

\* new_from_footer_block: seek to end - 24, read footer_size, the version and
\* the magic number; seek to end - footer_size and read the struct. A seek
\* ahead of the file or a read past its end is an Io error.
TieredStorageFooter_new_from_footer_block(bytes) ==
    LET len == Len(bytes)
        footer_size == FromLE(Slice(bytes, len - 24, 8))
    IN  IF len < FOOTER_TAIL_SIZE THEN Io
        ELSE IF Slice(bytes, len - 8, 8) # LE(FOOTER_MAGIC_NUMBER, 8) THEN Io
        ELSE IF footer_size > len \/ footer_size < RUNTIME_FOOTER_STRUCT_SIZE THEN Io
        ELSE [kind |-> "Ok",
              footer |-> footer_read_type(
                             Slice(bytes, len - footer_size, RUNTIME_FOOTER_STRUCT_SIZE))]

\* footers as the tests build them and as default() does: footer_size is
\* FOOTER_SIZE (the struct and the magic number) in every footer the code
\* makes
Footers ==
    { [account_meta_format |-> f, owners_block_format |-> 0,
       account_index_format |-> 0, data_block_format |-> d,
       account_meta_count |-> c, account_meta_entry_size |-> 24,
       account_data_block_size |-> 4096, owner_count |-> 250,
       owner_entry_size |-> 32, account_metas_offset |-> 1062400,
       account_pubkeys_offset |-> 1069600, owners_offset |-> 1081200,
       hash |-> h, min_account_address |-> 0, max_account_address |-> h + 1,
       footer_size |-> RUNTIME_FOOTER_SIZE, format_version |-> v] :
      f \in AccountMetaFormats, d \in {0, 1}, c \in {0, 300}, h \in {0, 7},
      v \in {FOOTER_FORMAT_VERSION, FOOTER_FORMAT_VERSION + 1} }

\* a file of n bytes is there and a footer is written after them
WriteFooterBlock ==
    /\ file = <<>>
    /\ storage = <<>>
    /\ \E n \in 0..MaxFooterPrefix : \E footer \in Footers :
         /\ file' = <<TieredStorageFooter_write_footer_block([i \in 1..n |-> 255 - i], footer)>>
         /\ result' = [op |-> "write_footer_block", ret |-> Ok, footer |-> footer]
    /\ UNCHANGED <<storage, calls, written, found, iter, damage, procs>>

\* TieredStorageFooter::new_from_path on the file
ReadFooterBlock ==
    /\ file # <<>>
    /\ result.op = "write_footer_block"
    /\ result' = [op |-> "new_from_footer_block",
                  ret |-> TieredStorageFooter_new_from_footer_block(file[1]),
                  footer |-> result.footer]
    /\ UNCHANGED <<file, storage, calls, written, found, iter, damage, procs>>

\* the file is removed
RemoveFooterFile ==
    /\ file # <<>>
    /\ result.op = "new_from_footer_block"
    /\ file' = <<>>
    /\ result' = Nothing
    /\ UNCHANGED <<storage, calls, written, found, iter, damage, procs>>

NextFooter == WriteFooterBlock \/ ReadFooterBlock \/ RemoveFooterFile

SpecFooter == Init /\ [][NextFooter]_vars

\* ------------------------------------------------- the metadata entry on its own
\* HotAccountMeta built by its builder functions, one call at a time; the
\* result keeps the entry before the call, the argument, what the call
\* returned, and the padding and owner index the accepted calls have set
MaxPaddingTried == 8
PaddingsTried == 0..MaxPaddingTried
OwnerIndexesTried ==
    {0, 1, 31, 32, 255, 8192, 2097152, MAX_HOT_OWNER_INDEX - 1,
     MAX_HOT_OWNER_INDEX, MAX_HOT_OWNER_INDEX + 1}
FlagsTried ==
    [has_rent_epoch : BOOLEAN, has_account_hash : BOOLEAN,
     has_write_version : BOOLEAN, executable : {FALSE}]
LamportsTried == {0, 5}

MetaBuilt == result.op # "none" /\ result.ret # Panicked

\* HotAccountMeta::new()
MetaNew ==
    /\ result = Nothing
    /\ result' = [op |-> "new", before |-> HotAccountMeta_new, arg |-> 0,
                  ret |-> HotAccountMeta_new, padding |-> 0, owner_index |-> 0]
    /\ UNCHANGED <<file, storage, calls, written, found, iter, damage, procs>>

MetaWithLamports ==
    /\ MetaBuilt
    /\ \E lamports \in LamportsTried :
         result' = [result EXCEPT !.op = "with_lamports", !.before = result.ret,
                                  !.arg = lamports,
                                  !.ret = with_lamports(result.ret, lamports)]
    /\ UNCHANGED <<file, storage, calls, written, found, iter, damage, procs>>

MetaWithAccountDataPadding ==
    /\ MetaBuilt
    /\ \E padding \in PaddingsTried :
         LET ret == with_account_data_padding(result.ret, padding)
         IN  result' = [result EXCEPT !.op = "with_account_data_padding",
                                      !.before = result.ret, !.arg = padding,
                                      !.ret = ret,
                                      !.padding = IF ret = Panicked THEN @ ELSE padding]
    /\ UNCHANGED <<file, storage, calls, written, found, iter, damage, procs>>

MetaWithOwnerIndex ==
    /\ MetaBuilt
    /\ \E index \in OwnerIndexesTried :
         LET ret == with_owner_index(result.ret, index)
         IN  result' = [result EXCEPT !.op = "with_owner_index",
                                      !.before = result.ret, !.arg = index,
                                      !.ret = ret,
                                      !.owner_index = IF ret = Panicked THEN @ ELSE index]
    /\ UNCHANGED <<file, storage, calls, written, found, iter, damage, procs>>

MetaWithFlags ==
    /\ MetaBuilt
    /\ \E flags \in FlagsTried :
         result' = [result EXCEPT !.op = "with_flags", !.before = result.ret,
                                  !.arg = 0, !.ret = with_flags(result.ret, flags)]
    /\ UNCHANGED <<file, storage, calls, written, found, iter, damage, procs>>

\* the entry is let go of, or the panic has unwound
MetaForget ==
    /\ result.op # "none"
    /\ result' = Nothing
    /\ UNCHANGED <<file, storage, calls, written, found, iter, damage, procs>>

NextMeta ==
    \/ MetaNew
    \/ MetaWithLamports
    \/ MetaWithAccountDataPadding
    \/ MetaWithOwnerIndex
    \/ MetaWithFlags
    \/ MetaForget

SpecMeta == Init /\ [][NextMeta]_vars

\* ------------------------------------------------- the owners table on its own
\* try_insert calls on one AccountOwnersTable, with addresses 100..100+MaxOwnerIds
\* (addresses are not indexes); the result keeps the table before the call,
\* the address, and the index and table after it
MaxOwnerIds == 4
OwnerAddresses == {100 + k : k \in 0..MaxOwnerIds}

OwnersTableNew ==
    /\ result = Nothing
    /\ result' = [op |-> "new", before |-> AccountOwnersTable_new, arg |-> 0,
                  index |-> 0, table |-> AccountOwnersTable_new]
    /\ UNCHANGED <<file, storage, calls, written, found, iter, damage, procs>>

OwnersTableTryInsert ==
    /\ result.op \in {"new", "try_insert"}
    /\ Len(result.table.owners_vec) <= MaxOwnerIds + 1
    /\ \E address \in OwnerAddresses :
         LET ins == AccountOwnersTable_try_insert(result.table, address)
         IN  result' = [op |-> "try_insert", before |-> result.table, arg |-> address,
                        index |-> ins.index, table |-> ins.table]
    /\ UNCHANGED <<file, storage, calls, written, found, iter, damage, procs>>

\* the writer is done with the table
OwnersTableForget ==
    /\ result.op \in {"new", "try_insert"}
    /\ result' = Nothing
    /\ UNCHANGED <<file, storage, calls, written, found, iter, damage, procs>>

NextOwners == OwnersTableNew \/ OwnersTableTryInsert \/ OwnersTableForget

SpecOwners == Init /\ [][NextOwners]_vars

\* ------------------------------------------------- the index block on its own
\* AccountIndex::AddressAndOffset of runtime/index.rs. get_account_block_info:
\* the offset the index holds for the entry, and the distance to the first
\* later offset of the index that differs from it, or to the index block
\* when none does. The subtraction is on usize: where the later offset is
\* the smaller one it has no value here ("Underflow").
RECURSIVE next_block_offset(_, _, _, _)
next_block_offset(mmap, footer, target_block_offset, index_offset) ==
    IF index_offset >= footer.owners_offset
    THEN [kind |-> "Ok", value |-> footer.account_index_offset]
    ELSE LET at == get_type(mmap, index_offset, 8)
         IN  IF at = <<>> THEN Io
             ELSE IF target_block_offset # FromLE(at[1])
             THEN [kind |-> "Ok", value |-> FromLE(at[1])]
             ELSE next_block_offset(mmap, footer, target_block_offset, index_offset + 8)

\* a faulty get_account_block_info that ends the block at the offset of the
\* next entry, the same or not (C26 fails of it)
AccountIndex_get_account_block_info_next_entry(mmap, footer, index) ==
    LET index_offset == footer.account_index_offset
                        + PUBKEY_SIZE * footer.account_entry_count + index * 8
        at == get_type(mmap, index_offset, 8)
        next == get_type(mmap, index_offset + 8, 8)
    IN  IF at = <<>> THEN Io
        ELSE IF index_offset + 8 >= footer.owners_offset
        THEN [kind |-> "Ok", offset |-> FromLE(at[1]),
              len |-> footer.account_index_offset - FromLE(at[1])]
        ELSE IF next = <<>> THEN Io
        ELSE [kind |-> "Ok", offset |-> FromLE(at[1]),
              len |-> FromLE(next[1]) - FromLE(at[1])]

AccountIndex_get_account_block_info(mmap, footer, index) ==
    LET index_offset == footer.account_index_offset
                        + PUBKEY_SIZE * footer.account_entry_count + index * 8
        at == get_type(mmap, index_offset, 8)
    IN  IF at = <<>> THEN Io
        ELSE LET target_block_offset == FromLE(at[1])
                 next == next_block_offset(mmap, footer, target_block_offset, index_offset + 8)
             IN  IF next.kind # "Ok" THEN next
                 ELSE IF next.value < target_block_offset THEN [kind |-> "Underflow"]
                 ELSE [kind |-> "Ok", offset |-> target_block_offset,
                       len |-> next.value - target_block_offset]

AccountIndex_get_account_block(mmap, footer, index) ==
    LET info == AccountIndex_get_account_block_info(mmap, footer, index)
    IN  IF info.kind # "Ok" THEN info
        ELSE LET at == get_type(mmap, info.offset, info.len)
             IN  IF at = <<>> THEN Io ELSE [kind |-> "Ok", block |-> at[1]]

\* index blocks as test_address_and_offset_indexer builds them: up to
\* MaxIndexEntries entries whose offsets start at 0 or past it and stay or
\* grow by a multiple of 8 from entry to entry, behind account blocks that
\* end 8 or 16 bytes past the last offset and hold the bytes i % 256
MaxIndexEntries == 4
MaxIndexStep == 2

RECURSIVE IndexOffsets(_)
IndexOffsets(n) ==
    IF n = 1 THEN {<<8 * k>> : k \in 0..1}
    ELSE LET shorter == IndexOffsets(n - 1)
         IN  {Append(o, o[Len(o)] + 8 * k) : o \in shorter, k \in 0..MaxIndexStep}

index_entries_of(offsets) ==
    [i \in 1..Len(offsets) |-> [address |-> i, block_offset |-> offsets[i]]]

\* the account blocks and the index block are written; the footer is the
\* one the test fills in
IndexWrite ==
    /\ file = <<>>
    /\ storage = <<>>
    /\ \E n \in 1..MaxIndexEntries : \E offsets \in IndexOffsets(n) : \E tail \in {8, 16} :
         LET account_blocks_size == offsets[n] + tail
             blocks == write_bytes(TieredWritableFile_new,
                                   [i \in 1..account_blocks_size |-> (i - 1) % 256])
             done == write_index_block(blocks, index_entries_of(offsets))
         IN  /\ file' = <<done.bytes>>
             /\ result' = [op |-> "write_index_block", offsets |-> offsets,
                           footer |-> [TieredStorageFooter_default EXCEPT
                                         !.account_entry_count = n,
                                         !.account_index_offset = account_blocks_size,
                                         !.owners_offset = account_blocks_size
                                                           + (PUBKEY_SIZE + 8) * n]]
    /\ UNCHANGED <<storage, calls, written, found, iter, damage, procs>>

\* get_account_block_info and get_account_block of one entry
IndexRead ==
    /\ file # <<>>
    /\ result.op \in {"write_index_block", "get_account_block"}
    /\ \E index \in 0..(result.footer.account_entry_count - 1) :
         result' = [op |-> "get_account_block", offsets |-> result.offsets,
                    footer |-> result.footer, index |-> index,
                    info |-> AccountIndex_get_account_block_info(file[1], result.footer, index),
                    ret |-> AccountIndex_get_account_block(file[1], result.footer, index)]
    /\ UNCHANGED <<file, storage, calls, written, found, iter, damage, procs>>

\* the file is removed
IndexRemoveFile ==
    /\ file # <<>>
    /\ result.op \in {"write_index_block", "get_account_block"}
    /\ file' = <<>>
    /\ result' = Nothing
    /\ UNCHANGED <<storage, calls, written, found, iter, damage, procs>>

NextIndex == IndexWrite \/ IndexRead \/ IndexRemoveFile

SpecIndex == Init /\ [][NextIndex]_vars

\* ------------------------------------------------- an account block on its own
\* a block built as test_hot_account_meta_full builds it: the meta, the
\* data, any padding of 0..7 bytes, the optional fields that are there; the
\* meta is read back from the buffer and decodes the rest
MaxBlockData == 3
OptionalFieldsTried ==
    [rent_epoch : {<<>>, <<U64(7)>>},
     account_hash : {<<>>, <<HashValue(5)>>},
     write_version : {<<>>, <<U64(3)>>}]

BlockBuild ==
    /\ result = Nothing
    /\ \E n \in 0..MaxBlockData : \E padding \in 0..MAX_HOT_PADDING :
       \E optional_fields \in OptionalFieldsTried :
         LET data == [i \in 1..n |-> 10 + i]
             expected_meta == [lamports |-> 5, owner_index |-> 1, padding |-> padding,
                               flags |-> AccountMetaFlags_new_from(optional_fields)]
             buffer == HotAccountMeta_bytes(expected_meta) \o data
                       \o [i \in 1..padding |-> 0]
                       \o write_optional_fields(optional_fields)
         IN  result' = [op |-> "write_block", data |-> data, padding |-> padding,
                        optional_fields |-> optional_fields, buffer |-> buffer]
    /\ UNCHANGED <<file, storage, calls, written, found, iter, damage, procs>>

BlockDecode ==
    /\ result.op = "write_block"
    /\ LET meta == HotAccountMeta_from_bytes(Slice(result.buffer, 0, HOT_ACCOUNT_META_SIZE))
           account_block == Slice(result.buffer, HOT_ACCOUNT_META_SIZE,
                                  Len(result.buffer) - HOT_ACCOUNT_META_SIZE)
       IN  result' = [op |-> "read_block", data |-> result.data, padding |-> result.padding,
                      optional_fields |-> result.optional_fields,
                      account_block |-> account_block, meta |-> meta,
                      optional_fields_offset |-> optional_fields_offset(meta, account_block),
                      rent_epoch |-> meta_rent_epoch(meta, account_block),
                      account_hash |-> meta_account_hash(meta, account_block),
                      write_version |-> meta_write_version(meta, account_block),
                      account_data_size |-> account_data_size(meta, account_block),
                      account_data |-> account_data(meta, account_block)]
    /\ UNCHANGED <<file, storage, calls, written, found, iter, damage, procs>>

BlockForget ==
    /\ result.op = "read_block"
    /\ result' = Nothing
    /\ UNCHANGED <<file, storage, calls, written, found, iter, damage, procs>>

NextBlock == BlockBuild \/ BlockDecode \/ BlockForget

SpecBlock == Init /\ [][NextBlock]_vars

\* ------------------------------------------------- files of any length
\* files some other hand left at the path: n zero bytes, or n zero bytes
\* and the magic number, or the file a write of no account leaves; each is
\* opened by new_readonly
MaxOpenPrefix == 50
OpenFiles ==
    {Zeros(n) : n \in 0..MaxOpenPrefix}
    \cup {Zeros(n) \o FILE_MAGIC_NUMBER : n \in 0..MaxOpenPrefix}
    \cup {write_accounts(HOT_FORMAT, <<>>, 0).bytes}

PlaceFile ==
    /\ file = <<>>
    /\ storage = <<>>
    /\ \E bytes \in OpenFiles :
         /\ file' = <<bytes>>
         /\ damage' = [kind |-> "placed", at |-> Len(bytes)]
    /\ result' = Nothing
    /\ UNCHANGED <<storage, calls, written, found, iter, procs>>

RemoveFile ==
    /\ file # <<>>
    /\ storage = <<>>
    /\ file' = <<>>
    /\ damage' = NoDamage
    /\ result' = Nothing
    /\ UNCHANGED <<storage, calls, written, found, iter, procs>>

NextOpen == PlaceFile \/ NewReadonly \/ Forget \/ RemoveFile

SpecOpen == Init /\ [][NextOpen]_vars

\* ------------------------------------------------- what the input demands
\* the i-th account the write stored: input account skip + i
InputAt(i) == written[1].accounts[written[1].skip + i + 1]

StoredCount == Len(written[1].accounts) - written[1].skip

\* an input account with zero lamports stands for the default account
Normal(a) ==
    IF a.lamports = 0
    THEN [a EXCEPT !.owner = 0, !.data = <<>>, !.rent_epoch = U64_MAX, !.executable = FALSE]
    ELSE a

\* the byte length of the block an input account needs: meta, data, padding
\* to the 8-byte boundary, the optional fields it has
ExpectedBlockSize(a) ==
    LET n == Normal(a)
    IN  HOT_ACCOUNT_META_SIZE + Len(n.data) + ((8 - (Len(n.data) % 8)) % 8)
        + Bit(n.rent_epoch # U64_MAX, 8) + Bit(n.hash # 0, HASH_SIZE)
        + Bit(n.write_version # U64_MAX, 8)

RECURSIVE ExpectedOffset(_)
ExpectedOffset(i) ==
    IF i = 0 THEN 0 ELSE ExpectedOffset(i - 1) + ExpectedBlockSize(InputAt(i - 1))

\* the storage holds a reader over the file its own write produced
ReadsOwnWrite == storage # <<>> /\ is_read_only(storage[1]) /\ written # <<>>

\* ------------------------------------------------------------------ claims
\* C1 (round trip): every account get_account returns after write_accounts
\* equals the input account it was written from in lamports, owner,
\* executable, data, and in rent_epoch, account hash and write_version when
\* the input has them.
C1_RoundTrip ==
    (ReadsOwnWrite /\ found.op = "get_account" /\ found.res.kind = "Some") =>
        LET a == Normal(InputAt(multiplied_index_to_index(found.index)))
            f == TieredReadableAccount_fields(found.res.account)
        IN  /\ f.lamports = U64(a.lamports)
            /\ f.owner = Pubkey(a.owner)
            /\ f.executable = a.executable
            /\ f.data = a.data
            /\ (a.rent_epoch # U64_MAX => f.rent_epoch = U64(a.rent_epoch))
            /\ (a.hash # 0 => f.hash = <<HashValue(a.hash)>>)
            /\ (a.write_version # U64_MAX => f.write_version = <<U64(a.write_version)>>)

C3_OneShot ==
    storage # <<>> =>
        /\ (calls >= 1 => is_read_only(storage[1]))
        /\ (calls >= 2 =>
              result = [op |-> "write_accounts",
                        ret |-> [kind |-> "AttemptToUpdateReadOnly", path |-> Path]])

\* the last call on the instance is the write_accounts call that wrote the
\* whole file and set the reader
WroteFile ==
    /\ ReadsOwnWrite
    /\ storage[1].format # <<>>
    /\ result.op = "write_accounts"
    /\ result.ret.kind # "AttemptToUpdateReadOnly"

\* C4 (return shape): the write_accounts(batch, skip) call that wrote the
\* file returns Ok with exactly len - skip entries in input order, entry k
\* with offset k * ALIGN_BOUNDARY_OFFSET and the byte length of block k.
C4_ReturnShape ==
    WroteFile =>
        /\ result.ret.kind = "Ok"
        /\ result.ret.infos =
               [k \in 1..StoredCount |->
                   [offset |-> (k - 1) * ALIGN_BOUNDARY_OFFSET,
                    size |-> ExpectedBlockSize(InputAt(k - 1))]]

HashedLen == Len(file[1]) - HASH_SIZE - FOOTER_TAIL_SIZE
LastEight == Slice(file[1], Len(file[1]) - 8, 8)

C6_WitnessStoredHash ==
    /\ result.op = "new_readonly"
    /\ damage.kind = "byte"
    /\ damage.at >= HashedLen
    /\ damage.at < HashedLen + HASH_SIZE

\* C7 (magic number): opening a file of 8 bytes or more whose last 8 bytes
\* are not the magic number fails with MagicNumberMismatch carrying the
\* expected and the observed value, whatever the hash check would say, and
\* there is no reader.
C7_MagicNumberChecked ==
    (result.op = "new_readonly" /\ file # <<>>
     /\ Len(file[1]) >= 8 /\ LastEight # FILE_MAGIC_NUMBER) =>
            /\ result.ret = [kind |-> "MagicNumberMismatch",
                             expected |-> FILE_MAGIC_NUMBER, observed |-> LastEight]
            /\ storage = <<>>

\* a file long enough for the hash check, with a wrong magic number and a
\* wrong hash, was opened
C7_Witness ==
    /\ result.op = "new_readonly"
    /\ file # <<>>
    /\ Len(file[1]) >= HASH_SIZE + FOOTER_TAIL_SIZE
    /\ LastEight # FILE_MAGIC_NUMBER
    /\ Slice(file[1], HashedLen, HASH_SIZE) # Blake3(Slice(file[1], 0, HashedLen))

C10_MatchesOwners ==
    found.op = "account_matches_owners" =>
        LET index == multiplied_index_to_index(found.index)
        IN  IF ~ReadsOwnWrite \/ index >= StoredCount
            THEN found.res.kind = "UnableToLoad"
            ELSE LET a == InputAt(index)
                     position == PositionIn(found.owners, Pubkey(a.owner), 1)
                 IN  IF a.lamports = 0 \/ position < 0
                     THEN found.res.kind = "NoMatch"
                     ELSE found.res = [kind |-> "Ok", position |-> position]

\* the footer as the bytes of the file hold it, the file taken whole
FooterInFile ==
    TieredStorageFooter_from_bytes(
        Slice(file[1], Len(file[1]) - FOOTER_SIZE, FOOTER_STRUCT_SIZE))

\* the file is what a write of no account left
WroteNoAccount == file # <<>> /\ written # <<>> /\ damage = NoDamage /\ StoredCount = 0

\* C11 (empty batch): a write_accounts call with no account to write (an
\* empty batch, or skip = len) returns Ok and leaves a file of footer and
\* magic number only (FOOTER_SIZE bytes), with account_entry_count 0, no
\* owners, and the four format discriminants of the writer's format; opened
\* again, the file has num_accounts 0 and get_account(0) is None.
C11_EmptyBatch ==
    WroteNoAccount =>
        /\ Len(file[1]) = FOOTER_SIZE
        /\ FooterInFile.account_entry_count = 0
        /\ FooterInFile.owner_count = 0
        /\ FooterInFile.owners_offset = FooterInFile.account_index_offset
        /\ FooterInFile.account_meta_format = written[1].format.account_meta_format
        /\ FooterInFile.owners_block_format = written[1].format.owners_block_format
        /\ FooterInFile.account_index_format = written[1].format.account_index_format
        /\ FooterInFile.data_block_format = written[1].format.account_block_format
        /\ (WroteFile /\ written[1].format = HOT_FORMAT) => result.ret.kind = "Ok"
        /\ (storage # <<>> /\ is_read_only(storage[1])) =>
              /\ num_accounts(storage[1].reader[1]) = 0
              /\ (found.op = "get_account" /\ found.index = 0) => found.res.kind = "None"

\* C11 without the value returned: what the file of an empty write holds
\* and what reading it gives
C11_EmptyFile ==
    WroteNoAccount =>
        /\ Len(file[1]) = FOOTER_SIZE
        /\ FooterInFile.account_entry_count = 0
        /\ FooterInFile.owner_count = 0
        /\ FooterInFile.owners_offset = FooterInFile.account_index_offset
        /\ FooterInFile.account_meta_format = written[1].format.account_meta_format
        /\ (storage # <<>> /\ is_read_only(storage[1])) =>
              /\ num_accounts(storage[1].reader[1]) = 0
              /\ (found.op = "get_account" /\ found.index = 0) => found.res.kind = "None"

\* C12 (delete on drop): whenever an instance goes, written through or
\* opened read-only, the file is gone after it if the instance was dropped,
\* and is the file it was if the instance was detached.
C12_DeleteOnDrop ==
    [][(storage # <<>> /\ storage' = <<>>) =>
          IF result'.op = "drop" THEN file' = <<>> ELSE file' = file]_vars

\* an instance over an existing file has been dropped
C12_Witness ==
    /\ result = [op |-> "drop", ret |-> Ok]
    /\ storage = <<>>
    /\ file = <<>>

C14_ExclusiveCreate ==
    [][(/\ file # <<>>
        /\ \/ result'.op \in {"TieredWritableFile::new", "TieredStorageWriter::new",
                               "TieredStorageFile::new(create)"}
           \/ (result'.op = "write_accounts" /\ ~is_read_only(storage[1])))
       => (result'.ret = Io /\ file' = file)]_vars

\* C14 for the constructors of accounts-db only: TieredWritableFile::new,
\* and TieredStorageWriter::new inside write_accounts
C14_ExclusiveCreateNew ==
    [][(/\ file # <<>>
        /\ \/ result'.op = "TieredWritableFile::new"
           \/ (result'.op = "write_accounts" /\ ~is_read_only(storage[1])))
       => (result'.ret = Io /\ file' = file)]_vars

\* C15: of two write_accounts calls in flight on one path, on two instances
\* or on one, at most one creates the file; a call that did not create it
\* has written no byte and returns an error; every byte in the file is a
\* byte the creating call has written, and once both calls have returned
\* the file is the whole output of that one call.
IsPrefix(a, b) == Len(a) <= Len(b) /\ a = SubSeq(b, 1, Len(a))

Creators == {t \in Callers : procs.calls[t].created}

C16_WriterErrorReturned ==
    [][(damage.kind # "cut" /\ damage'.kind = "cut")
          => (result'.op = "write_accounts" /\ result'.ret = Io)]_vars

\* C16, what the code does keep: a failed writer never makes the call succeed
C16_WriterErrorNotSuccess ==
    [][(damage.kind # "cut" /\ damage'.kind = "cut") => result'.ret.kind # "Ok"]_vars

\* C17: opening a file whose tail carries a format_version other than 1
\* fails with UnsupportedVersion(version), here for a file that is whole but
\* for one byte of format_version, so that its magic number and its hash
\* are those of the file as written.
format_version_of(bytes) == FromLE(Slice(bytes, Len(bytes) - 16, 8))

VersionDamaged ==
    /\ file # <<>>
    /\ damage.kind = "byte"
    /\ damage.at >= Len(file[1]) - 16
    /\ damage.at < Len(file[1]) - 8

C17_UnsupportedVersion ==
    (result.op = "new_readonly" /\ VersionDamaged)
        => /\ format_version_of(file[1]) # FOOTER_FORMAT_VERSION
           /\ result.ret = [kind |-> "UnsupportedVersion",
                            version |-> format_version_of(file[1])]

\* C17, what the code does instead: the version is read and not looked at
C17_VersionIgnored ==
    (result.op = "new_readonly" /\ VersionDamaged)
        => /\ format_version_of(file[1]) # FOOTER_FORMAT_VERSION
           /\ result.ret = Ok

\* C18: on a file that is well formed but for its footer's account meta
\* format, which is not the hot one, TieredStorageReader::new_from_path
\* returns UnsupportedAccountMetaFormat and no reader is made: new_readonly
\* gives that error, and no instance over such a file holds a reader.
NotHotFile(meta_formats) ==
    /\ file # <<>>
    /\ written # <<>>
    /\ written[1].format.account_meta_format \in meta_formats
    /\ file = <<write_accounts(written[1].format, written[1].accounts, written[1].skip).bytes>>

UnsupportedMetaFormat(meta_formats) ==
    NotHotFile(meta_formats) =>
        /\ (result.op = "new_readonly")
              => (result.ret.kind = "UnsupportedAccountMetaFormat" /\ storage = <<>>)
        /\ (storage # <<>>) => ~is_read_only(storage[1])

C18_UnsupportedKnownVariant == UnsupportedMetaFormat({AccountMetaFormat_Cold})

\* C19: after write_accounts the footer's owner_count is at most the number
\* of distinct owners written (1 when all accounts have one owner), the
\* owners block is owner_count * 32 bytes long, and every meta written has
\* owner_index < owner_count, the entry of the owners block at owner_index
\* being the owner of the account.
WholeFile == file # <<>> /\ written # <<>> /\ damage = NoDamage

OwnerWritten(i) ==
    get_account_fields(
        StorableAccounts_get(written[1].accounts, written[1].skip + i).account).owner

DistinctOwners == {OwnerWritten(i) : i \in 0..(StoredCount - 1)}

OwnersBlockInFile ==
    Slice(file[1], FooterInFile.owners_offset,
          Len(file[1]) - FOOTER_SIZE - FooterInFile.owners_offset)

MetaInFile(i) ==
    HotAccountMeta_from_bytes(
        Slice(file[1], get_meta_offset(file[1], FooterInFile, i), HOT_ACCOUNT_META_SIZE))

OwnersBlockHolds(count) ==
    /\ Len(OwnersBlockInFile) = count * PUBKEY_SIZE
    /\ \A i \in 0..(StoredCount - 1) :
          /\ MetaInFile(i).owner_index < count
          /\ Slice(OwnersBlockInFile, PUBKEY_SIZE * MetaInFile(i).owner_index, PUBKEY_SIZE)
                = Pubkey(OwnerWritten(i))

C19_OwnerCount ==
    WholeFile =>
        /\ FooterInFile.owner_count <= Cardinality(DistinctOwners)
        /\ (Cardinality(DistinctOwners) = 1) => FooterInFile.owner_count = 1
        /\ OwnersBlockHolds(FooterInFile.owner_count)

\* C19, what the writer does: the owners block holds every distinct owner
\* once and the metas point into it, and the footer's owner_count stays 0
C19_OwnersBlockDeduplicated ==
    WholeFile =>
        /\ OwnersBlockHolds(Cardinality(DistinctOwners))
        /\ FooterInFile.owner_count = 0

\* C20: for every account stored, the padding in its meta is
\* (8 - data_len mod 8) mod 8, lies in 0..7 and makes data_len + padding a
\* multiple of 8; that many padding bytes follow the data in the block, and
\* the optional fields follow them; so the padding is 0 for data of a
\* multiple of 8 bytes and 1 for data one byte short of one.
DataWritten(i) ==
    get_account_fields(
        StorableAccounts_get(written[1].accounts, written[1].skip + i).account).data

BlockInFile(i) ==
    LET start == get_meta_offset(file[1], FooterInFile, i)
        end == IF i + 1 < StoredCount
               THEN get_meta_offset(file[1], FooterInFile, i + 1)
               ELSE FooterInFile.account_index_offset
    IN  Slice(file[1], start, end - start)

Aligned(i) ==
    LET meta == MetaInFile(i)
        block == BlockInFile(i)
        data_len == Len(DataWritten(i))
    IN  /\ meta.padding = (8 - (data_len % 8)) % 8
        /\ meta.padding \in 0..7
        /\ (data_len + meta.padding) % 8 = 0
        /\ (data_len % 8 = 0) => meta.padding = 0
        /\ (data_len % 8 = 7) => meta.padding = 1
        /\ Slice(block, HOT_ACCOUNT_META_SIZE, data_len) = DataWritten(i)
        /\ Slice(block, HOT_ACCOUNT_META_SIZE + data_len, meta.padding)
              = [k \in 1..meta.padding |-> PADDING_BYTE]
        /\ Len(block) = HOT_ACCOUNT_META_SIZE + data_len + meta.padding
                          + AccountMetaOptionalFields_size_from_flags(meta.flags)

FieldsWritten(a) ==
    (IF a.rent_epoch = U64_MAX THEN <<>> ELSE U64(a.rent_epoch))
    \o (IF a.hash = 0 THEN <<>> ELSE HashValue(a.hash))
    \o (IF a.write_version = U64_MAX THEN <<>> ELSE U64(a.write_version))

WordPaddingLow(padding, index) ==
    <<padding + 8 * (index % 32), (index \div 32) % 256,
      (index \div 8192) % 256, (index \div 2097152) % 256>>

\* the four little-endian bytes of the word padding * 2^29 + owner_index
WordPaddingHigh(padding, index) ==
    <<index % 256, (index \div 256) % 256, (index \div 65536) % 256,
      (index \div 16777216) + 32 * padding>>

C28_BuilderValidation ==
    /\ result.op = "with_account_data_padding" =>
         /\ (result.ret = Panicked) <=> (result.arg > 7)
         /\ result.ret # Panicked =>
              /\ HotAccountMeta_account_data_padding(result.ret) = result.arg
              /\ HotAccountMeta_owner_index(result.ret)
                   = HotAccountMeta_owner_index(result.before)
              /\ result.ret.lamports = result.before.lamports
              /\ result.ret.flags = result.before.flags
    /\ result.op = "with_owner_index" =>
         /\ (result.ret = Panicked) <=> (result.arg > 536870911)
         /\ result.ret # Panicked =>
              /\ HotAccountMeta_owner_index(result.ret) = result.arg
              /\ HotAccountMeta_account_data_padding(result.ret)
                   = HotAccountMeta_account_data_padding(result.before)
              /\ result.ret.lamports = result.before.lamports
              /\ result.ret.flags = result.before.flags

\* the largest owner index is set on an entry that holds the largest padding
C28_Witness ==
    /\ result.op = "with_owner_index"
    /\ result.arg = MAX_HOT_OWNER_INDEX
    /\ result.ret # Panicked
    /\ HotAccountMeta_account_data_padding(result.before) = MAX_HOT_PADDING
    /\ HotAccountMeta_owner_index(result.before) = 1
    /\ HotAccountMeta_account_data_padding(result.ret) = MAX_HOT_PADDING

\* C24: after any sequence of try_insert calls the owner vector holds no
\* address twice, the map sends every inserted address to its position in
\* the vector and holds nothing else, so the indexes are 0..len-1 in the
\* order of first insertion; try_insert of an address already there returns
\* its index and leaves the table as it was, try_insert of a new address
\* returns the previous length and appends the address. The vector alone,
\* as the writer of the model keeps it, gives the same index and vector.
C24_OwnersTable ==
    result.op = "try_insert" =>
        LET vec == result.table.owners_vec
            map == result.table.owners_map
            was == result.before.owners_vec
            present == \E i \in 1..Len(was) : was[i] = result.arg
        IN  /\ \A i, j \in 1..Len(vec) : vec[i] = vec[j] => i = j
            /\ DOMAIN map = {vec[i] : i \in 1..Len(vec)}
            /\ \A i \in 1..Len(vec) : map[vec[i]] = i - 1
            /\ vec[result.index + 1] = result.arg
            /\ present => /\ result.table = result.before
                          /\ was[result.index + 1] = result.arg
            /\ ~present => /\ result.index = Len(was)
                           /\ vec = Append(was, result.arg)
            /\ try_insert(was, result.arg) = [table |-> vec, index |-> result.index]

\* an address that is there is inserted again, after others were added
C24_Witness ==
    /\ result.op = "try_insert"
    /\ Len(result.before.owners_vec) = 3
    /\ result.before.owners_vec[2] = result.arg
    /\ result.index = 1
    /\ result.table = result.before

\* the owners of the accounts stored, as the input names them
OwnersOfInput == {Normal(InputAt(i)).owner : i \in 0..(StoredCount - 1)}

\* C25: after write_accounts stores N accounts with M distinct owners, the
\* block offsets of the index start at 0, each is the sum of the sizes of
\* the blocks stored before it (strictly increasing), account_entry_count is
\* N, the index block offset is the total size of the account blocks,
\* owners_offset is the index block offset + 40 * N, and the owners block
\* (up to the footer) is 32 * M bytes long.
C25_FileLayout ==
    WholeFile =>
        LET footer == FooterInFile
            offset(i) == get_meta_offset(file[1], footer, i)
        IN  /\ footer.account_entry_count = StoredCount
            /\ StoredCount > 0 => offset(0) = 0
            /\ \A i \in 0..(StoredCount - 1) : offset(i) = ExpectedOffset(i)
            /\ \A i \in 0..(StoredCount - 2) : offset(i) < offset(i + 1)
            /\ footer.account_index_offset = ExpectedOffset(StoredCount)
            /\ footer.owners_offset = footer.account_index_offset + 40 * StoredCount
            /\ Len(file[1]) - FOOTER_SIZE - footer.owners_offset
                 = 32 * Cardinality(OwnersOfInput)

\* two accounts of two owners and of different sizes are stored
C25_Witness ==
    /\ WholeFile
    /\ written[1].skip = 0
    /\ StoredCount = 2
    /\ Cardinality(OwnersOfInput) = 2
    /\ get_meta_offset(file[1], FooterInFile, 1) = 72
    /\ FooterInFile.owners_offset = 72 + 16 + 80

\* the end of the block of entry i (from 1) of an index with these offsets:
\* the first later offset that differs, or the index block offset
BlockEnd(offsets, i, account_index_offset) ==
    LET later == {j \in (i + 1)..Len(offsets) : offsets[j] # offsets[i]}
    IN  IF later = {} THEN account_index_offset
        ELSE offsets[CHOOSE j \in later : \A k \in later : j <= k]

\* C26: for every index i of an index block whose offsets are
\* non-decreasing, get_account_block_info returns (offset_i, end - offset_i)
\* with end the first later offset of the index that differs from offset_i,
\* or the index block offset when none does; get_account_block returns the
\* file bytes in [offset_i, end); entries that share an offset get the same
\* block.
C26_BlockSizeDerivation ==
    result.op = "get_account_block" =>
        LET offsets == result.offsets
            i == result.index + 1
            end == BlockEnd(offsets, i, result.footer.account_index_offset)
        IN  /\ result.info = [kind |-> "Ok", offset |-> offsets[i], len |-> end - offsets[i]]
            /\ result.ret = [kind |-> "Ok", block |-> Slice(file[1], offsets[i], end - offsets[i])]
            /\ result.ret.block = [k \in 1..(end - offsets[i]) |-> (offsets[i] + k - 1) % 256]
            /\ \A j \in 1..Len(offsets) :
                 offsets[j] = offsets[i] =>
                     AccountIndex_get_account_block(file[1], result.footer, j - 1) = result.ret

\* the first of three entries that share an offset is read, a fourth entry
\* follows them
C26_Witness ==
    /\ result.op = "get_account_block"
    /\ result.offsets = <<8, 8, 8, 24>>
    /\ result.index = 0
    /\ result.info = [kind |-> "Ok", offset |-> 8, len |-> 16]
    /\ result.ret.block = <<8, 9, 10, 11, 12, 13, 14, 15, 16, 17, 18, 19, 20, 21, 22, 23>>

\* the bytes the optional fields that are there take
PresentSize(optional_fields) ==
    (IF optional_fields.rent_epoch = <<>> THEN 0 ELSE 8)
    + (IF optional_fields.account_hash = <<>> THEN 0 ELSE 32)
    + (IF optional_fields.write_version = <<>> THEN 0 ELSE 8)

\* C27: for a block built as data, padding, then the optional fields that
\* are there, for all 8 combinations of the three flags and all paddings
\* 0..=7, the reader places the optional fields at block length minus the
\* sum of the sizes of those present, reads rent_epoch first, account_hash
\* second and write_version last (None for a field whose flag is clear),
\* and takes the data length as that offset minus the padding, returning
\* the original data bytes.
C27_OptionalFieldDecoding ==
    result.op = "read_block" =>
        LET o == result.optional_fields
            block == result.account_block
            at == Len(block) - PresentSize(o)
            hash_at == at + (IF o.rent_epoch = <<>> THEN 0 ELSE 8)
            version_at == hash_at + (IF o.account_hash = <<>> THEN 0 ELSE 32)
        IN  /\ result.meta.padding = result.padding
            /\ result.meta.flags.has_rent_epoch = (o.rent_epoch # <<>>)
            /\ result.meta.flags.has_account_hash = (o.account_hash # <<>>)
            /\ result.meta.flags.has_write_version = (o.write_version # <<>>)
            /\ result.optional_fields_offset = at
            /\ result.rent_epoch = o.rent_epoch
            /\ result.account_hash = o.account_hash
            /\ result.write_version = o.write_version
            /\ o.rent_epoch # <<>> => Slice(block, at, 8) = result.rent_epoch[1]
            /\ o.account_hash # <<>> => Slice(block, hash_at, 32) = result.account_hash[1]
            /\ o.write_version # <<>> => Slice(block, version_at, 8) = result.write_version[1]
            /\ result.account_data_size = at - result.padding
            /\ result.account_data_size = Len(result.data)
            /\ result.account_data = result.data

\* the hash and the write version are there and the rent epoch is not,
\* behind three bytes of data and seven of padding
C27_Witness ==
    /\ result.op = "read_block"
    /\ result.padding = 7
    /\ Len(result.data) = 3
    /\ result.optional_fields.rent_epoch = <<>>
    /\ result.account_hash = <<HashValue(5)>>
    /\ result.write_version = <<U64(3)>>
    /\ result.optional_fields_offset = 10

\* C29: dropping a TieredStorage never panics, whatever state it is in: a
\* writable instance that was never written (no file), one whose
\* write_accounts failed before the file was there, one whose file has
\* been removed already.
C29_DropNeverPanics ==
    result.op = "drop" => result.ret # [kind |-> "Panic"]

\* what holds of Drop: it panics exactly when the path holds no file as the
\* instance goes
C29_DropPanicsWithoutFile ==
    [][(storage # <<>> /\ storage' = <<>> /\ result'.op = "drop") =>
          ((result'.ret = [kind |-> "Panic"]) <=> (file = <<>>))]_vars

\* C30: opening a file of any length returns a reader or an error value;
\* for every length, the empty file and files shorter than 56 bytes that
\* end in the magic number included, len - 32 - 24 does not underflow and
\* the open does not panic.
C30_OpenNeverPanics ==
    (result.op = "new_readonly" /\ file # <<>>) =>
        /\ result.ret.kind # "Panic"
        /\ (Len(file[1]) >= 8 /\ LastEight = FILE_MAGIC_NUMBER) => HashedLen >= 0

\* what holds of the open: a file that does not end in the magic number, or
\* is 56 bytes or longer, gives a reader or an error value; a shorter file
\* that ends in the magic number gives a panic where overflow is checked and
\* an I/O error where it is not
C30_OpenPanicsOnlyOnShortFile ==
    (result.op = "new_readonly" /\ file # <<>>) =>
        IF Len(file[1]) >= 8 /\ LastEight = FILE_MAGIC_NUMBER /\ HashedLen < 0
        THEN result.ret.kind \in {"Panic", "Io"}
        ELSE result.ret.kind \in {"Ok", "Io", "MagicNumberMismatch", "FileHashMismatch"}

====
